---- MODULE Spec2Model ----
(***************************************************************************)
(* State-machine model of the glslViewer browser front end:                *)
(*   - UIManager loader counter            (src/assets/wasm/ui.js)         *)
(*   - EditorManager buffers and debounce  (src/unnamed/part_000)          *)
(*   - GitHubIntegration gist load/save    (src/assets/wasm/github.js)     *)
(*   - GitHubIntegration credential        (src/assets/wasm/github.js)     *)
(*   - GlslViewerIntegration bridge        (src/assets/wasm/glslviewer.js) *)
(*   - the page's handlers and callbacks   (src/assets/wasm/glslviewer.js) *)
(* Each component has its own specification (SpecLoader, SpecEditor,       *)
(* SpecGistLoad, SpecGistHistory, SpecGistSave, SpecAuth, SpecBridge); the *)
(* variables of the other components stay at their initial values in it.   *)
(* The specifications of the page (SpecSync, SpecApply, SpecDrop,          *)
(* SpecSession, SpecPage) compose the components its handlers call.        *)
(***************************************************************************)
EXTENDS Integers, Sequences, FiniteSets, TLC

VARIABLES
    \* ---- UIManager (ui.js) ----
    loaderPresent,   \* document.getElementById('loader') is not null
    loaderCount,     \* this.loaderCount
    loaderVisible,   \* the loader element has class 'visible'
    loaderText,      \* this.loaderContent.innerText
    fullscreen,      \* #wrapper has class 'fullscreen'
    nShow,           \* history: number of showLoader calls so far
    nHide,           \* history: number of hideLoader calls so far
    nClamped,        \* history: hideLoader calls that were clamped at 0
    \* ---- EditorManager (part_000) ----
    activeTab,       \* this.activeTab
    content,         \* this.content: the stored snapshot per buffer
    text,            \* the widget's live text, editor.getValue()
    editorMode,      \* the widget's 'mode' option
    errorLines,      \* lines carrying the 'error-line' class
    updateTimeout,   \* this.updateTimeout: NoTimer (null) or a timer id
    timers,          \* the live setTimeout timers: [id, left]
    nextTimerId,     \* the id the next setTimeout returns
    sinceChange,     \* history: time since the last 'change' event (saturating)
    cbCount,         \* history: invocations of the onChange callback
    burstLen,        \* history: 'change' events of the current or last burst,
                     \*   a burst being a run of events each cancelling a live timer
    editedSinceSync, \* history: a user edit or setValue came after the last
                     \*   setContent(active), switchTab or getAllContent
    \* ---- execution module, as seen by updateShader ----
    moduleHasCcall,  \* window.Module && window.Module.ccall
    sent,            \* the source last handed to setFrag / setVert
    moduleHandle,    \* window.Module is set
    moduleLoaded,    \* window.module_loaded
    moduleHasFS,     \* window.Module.FS is set
    \* ---- GlslViewerIntegration (glslviewer.js) ----
    cmdsHistory,     \* this.cmdsHistory
    ccalls,          \* history: the entry points the last bridge method called
    externalAssets,  \* this.externalAssets: the mapping loadAssetsFromGist got,
                     \*   as the sequence of its entries
    assets,          \* the assets of the loadAssetsFromGist call, in the order of
                     \*   Object.entries, each with the position of its promise
    batch,           \* the promise loadAssetsFromGist returned
    applying,        \* the onSuccess callback of the page: where it stands and the
                     \*   document it was called with
    applied,         \* history: what the callback has done, in order
    \* ---- GitHubIntegration (github.js) ----
    token,              \* this.token
    currentGistId,      \* this.currentGistId
    gistHistory,        \* this.gistHistory
    storedHistory,      \* localStorage 'gist_history', parsed; Absent if not set
    currentGistAuthors, \* this.currentGistAuthors
    loads,              \* the loadGist calls suspended at an await
    saves,              \* the saveGist calls suspended at an await
    savedIds,           \* history: the ids POST /gists has returned
    remote,             \* the gists this session has published: id -> JSON file
    saveErrors,         \* history: saveGist calls that ended in an exception
    nLoads,             \* history: loadGist calls that passed the re-entrancy guard
    nSaves,             \* history: saveGist calls that passed the credential check
    fetches,            \* history: GET /gists/{id} requests issued by loadGist, per id
    onStarts,           \* history: callbacks.onStart invocations, per id
    onSuccesses,        \* history: callbacks.onSuccess invocations, per id
    onErrors,           \* history: callbacks.onError invocations, per id
    lastStarted,        \* history: id of the load started last, NoId once any load failed
    user,               \* this.user
    storedToken,        \* localStorage 'github_token'; NoToken if not set
    checks,             \* the checkToken calls suspended at an await
    nChecks,            \* history: checkToken calls that issued a request
    \* ---- the page (DOMContentLoaded handler of glslviewer.js, UIManager) ----
    drops,           \* the drop handler's calls: the promise of each file and
                     \*   whether the finally callback has run
    consoleOut,      \* the lines ui.logToConsole has appended, as [text, isError]
    pageUrl,         \* the value of gist in the page's query string; NoId if none
    loginBtnText,    \* loginBtn.textContent
    saveBtnDisplay,  \* saveBtn.style.display
    checkModule,     \* the interval checkModule: "running" or "cleared"
    setupState,      \* setupGitHubButtons: "no" before it has run, "checking" while
                     \*   the checkToken call it chains updateUI to is pending,
                     \*   "done" after
    \* ---- history shared by the components ----
    lastOp           \* the operation that produced the current state (for a parsed
                     \*   document, with the history array it embeds)

loaderVars == <<loaderPresent, loaderCount, loaderVisible, loaderText,
                nShow, nHide, nClamped>>

editorVars == <<activeTab, content, text, editorMode, errorLines, updateTimeout,
                timers, nextTimerId, sinceChange, cbCount, burstLen,
                editedSinceSync, fullscreen>>

moduleState == <<moduleHasCcall, moduleHandle, moduleLoaded, moduleHasFS>>

moduleVars == <<moduleState, sent>>

bridgeVars == <<cmdsHistory, ccalls>>

applyVars == <<applying, applied>>

assetVars == <<externalAssets, assets, batch, applyVars>>

authVars == <<user, storedToken, checks, nChecks>>

pageVars == <<drops, consoleOut, pageUrl, loginBtnText, saveBtnDisplay, checkModule,
              setupState>>

gistVars == <<token, currentGistId, gistHistory, storedHistory, currentGistAuthors,
              loads, saves, savedIds, remote, saveErrors, nLoads, nSaves, fetches, onStarts, onSuccesses, onErrors,
              lastStarted>>

----------------------------------------------------------------------------
(* Bounds of the model *)

\* at most this many showLoader/hideLoader calls in a run
MaxLoaderCalls == 5

\* at most this many setTimeout calls (change events) in a run
MaxTimers == 3

\* SpecGistLoad: loadGist is called while fewer than this many calls have
\* passed the re-entrancy guard
MaxLoads == 3

\* SpecGistHistory: the same, for the runs over every document history
MaxHistLoads == 1

\* SpecGistSave: loadGist and saveGist are called while fewer than this many
\* calls have passed the re-entrancy guard or the credential check
MaxSaveOps == 2

\* the documents' embedded history arrays have at most this many entries
MaxDocHist == 3

\* SpecAuth: at most this many checkToken requests in a run
MaxChecks == 2

\* SpecBridge: the command history has at most this many entries
MaxCmds == 2

\* SpecBridge: only the last this many names of cmds_to_check are ever answered
\* with a text
MaxAnswered == 2

\* the most entries an assets mapping has
MaxAssets == 2

\* SpecDrop, SpecPage: at most this many drop events in a run
MaxDrops == 1

\* a drop event carries at most this many files
MaxDropFiles == 2

\* SpecSession: at most this many saveGist calls that pass the credential
\* check, and at most this many lines on the console
MaxSessionSaves == 1

MaxLines == 2

\* the most commands a document lists
MaxDocCommands == 2

----------------------------------------------------------------------------
(* Values *)

Tabs == {"frag", "vert"}

\* "dF" / "dV": defaultFragment / defaultVertex; "x": any other source text
Texts == {"dF", "dV", "x"}

NoText == "none"

\* the messages showLoader is called with ("" stands for no argument)
LoaderTexts == {"", "Loading Gist..."}

DefaultLoaderText == "Loading..."

NoTimer == 0

\* a property of an element that no script has set yet
InitialMarkup == "markup"

\* onChange(callback, debounceMs = 300)
DebounceMs == 300

\* the amounts by which time advances between two events
TickSteps == {150, 300}

Op(o, a) == [op |-> o, arg |-> a, hist |-> <<>>, json |-> <<>>]

\* an operation on a parsed document: h is the history array it embeds
OpDoc(o, a, h) == [op |-> o, arg |-> a, hist |-> h, json |-> <<>>]

\* a load that ends: j holds the members of the object handed to
\* callbacks.onSuccess that the callback reads
OpJson(o, a, h, j) == [op |-> o, arg |-> a, hist |-> h, json |-> j]

\* no document: the members of json that onSuccess reads, all missing
NoDocument == [frag |-> "", vert |-> "", hasAssets |-> FALSE, assets |-> <<>>,
               commands |-> <<>>]

Max(a, b) == IF a >= b THEN a ELSE b

Min(a, b) == IF a <= b THEN a ELSE b

ModeOf(type) == IF type = "frag" THEN "x-shader/x-fragment" ELSE "x-shader/x-vertex"

----------------------------------------------------------------------------
(* UIManager: the loader *)

\* mutant: hideLoader without the clamp at 0
HideLoaderNoClamp ==
    /\ nShow + nHide < MaxLoaderCalls
    /\ loaderCount' = loaderCount - 1
    /\ loaderVisible' = IF loaderPresent /\ loaderCount - 1 <= 0 THEN FALSE ELSE loaderVisible
    /\ loaderText' = IF loaderPresent /\ loaderCount - 1 <= 0 THEN DefaultLoaderText ELSE loaderText
    /\ nHide' = nHide + 1
    /\ nClamped' = nClamped
    /\ lastOp' = Op("hideLoader", "")
    /\ UNCHANGED <<loaderPresent, nShow>>

\* mutant: showLoader that forgets to add the 'visible' class
ShowLoaderNoClass(msg) ==
    /\ nShow + nHide < MaxLoaderCalls
    /\ loaderCount' = loaderCount + 1
    /\ loaderText' = IF msg # "" /\ loaderPresent THEN msg ELSE loaderText
    /\ nShow' = nShow + 1
    /\ lastOp' = Op("showLoader", msg)
    /\ UNCHANGED <<loaderPresent, loaderVisible, nHide, nClamped>>

ShowLoader(msg) ==
    /\ nShow + nHide < MaxLoaderCalls
    /\ loaderCount' = loaderCount + 1
    /\ loaderText' = IF msg # "" /\ loaderPresent THEN msg ELSE loaderText
    /\ loaderVisible' = IF loaderPresent /\ loaderCount + 1 > 0 THEN TRUE ELSE loaderVisible
    /\ nShow' = nShow + 1
    /\ lastOp' = Op("showLoader", msg)
    /\ UNCHANGED <<loaderPresent, nHide, nClamped>>

HideLoader ==
    /\ nShow + nHide < MaxLoaderCalls
    /\ LET c == loaderCount - 1
           reset == loaderPresent /\ c <= 0
       IN  /\ loaderCount' = IF reset THEN 0 ELSE c
           /\ loaderVisible' = IF reset THEN FALSE ELSE loaderVisible
           /\ loaderText' = IF reset THEN DefaultLoaderText ELSE loaderText
           /\ nClamped' = IF reset /\ c < 0 THEN nClamped + 1 ELSE nClamped
    /\ nHide' = nHide + 1
    /\ lastOp' = Op("hideLoader", "")
    /\ UNCHANGED <<loaderPresent, nShow>>

UpdateLoader(msg) ==
    /\ msg # ""
    /\ loaderPresent
    /\ loaderText # msg
    /\ loaderText' = msg
    /\ lastOp' = Op("updateLoader", msg)
    /\ UNCHANGED <<loaderPresent, loaderCount, loaderVisible, nShow, nHide, nClamped>>

InitLoader ==
    /\ loaderCount = 0
    /\ loaderText = DefaultLoaderText
    /\ nShow = 0
    /\ nHide = 0
    /\ nClamped = 0

----------------------------------------------------------------------------
(* EditorManager *)

ClearTimeout(tms, id) == {t \in tms : t.id # id}

\* glslviewer.setFrag / setVert: what the module holds after the call
SetShader(s, tab, code) == IF moduleHasCcall THEN [s EXCEPT ![tab] = code] ELSE s

\* updateShader (the callback registered through editorManager.onChange)
UpdateShader(s) == SetShader(s, activeTab, text)

\* mutant: a change handler that does not cancel the previous timer
ChangeHandlerNoClear(tms, ut) ==
    /\ errorLines' = {}
    /\ timers' = tms \cup {[id |-> nextTimerId, left |-> DebounceMs]}
    /\ updateTimeout' = nextTimerId
    /\ nextTimerId' = nextTimerId + 1
    /\ sinceChange' = 0
    /\ burstLen' = IF \E t \in timers : t.id = updateTimeout THEN burstLen + 1 ELSE 1

\* the widget's 'change' handler installed by onChange, run with the timers tms
\* and the handle ut left by the code that ran before it in the same step
ChangeHandler(tms, ut) ==
    /\ errorLines' = {}
    /\ timers' = (IF ut # NoTimer THEN ClearTimeout(tms, ut) ELSE tms)
                    \cup {[id |-> nextTimerId, left |-> DebounceMs]}
    /\ updateTimeout' = nextTimerId
    /\ nextTimerId' = nextTimerId + 1
    /\ sinceChange' = 0
    /\ burstLen' = IF \E t \in timers : t.id = updateTimeout THEN burstLen + 1 ELSE 1

\* the user types: the widget text changes and 'change' fires
UserEdit(v) ==
    /\ nextTimerId <= MaxTimers
    /\ v # text
    /\ text' = v
    /\ ChangeHandler(timers, updateTimeout)
    /\ lastOp' = Op("edit", "")
    /\ editedSinceSync' = TRUE
    /\ UNCHANGED <<activeTab, content, editorMode, cbCount, fullscreen>>
    /\ UNCHANGED moduleVars

\* setValue(value): editor.setValue always fires 'change'
SetValue(v) ==
    /\ nextTimerId <= MaxTimers
    /\ text' = v
    /\ ChangeHandler(timers, updateTimeout)
    /\ lastOp' = Op("setValue", "")
    /\ editedSinceSync' = TRUE
    /\ UNCHANGED <<activeTab, content, editorMode, cbCount, fullscreen>>
    /\ UNCHANGED moduleVars

\* getContent(type)
GetContent(type) == content[type]

\* mutant: setContent that writes through to the widget whatever the buffer
SetContentAlwaysWrites(type, v) ==
    /\ content' = [content EXCEPT ![type] = v]
    /\ nextTimerId <= MaxTimers
    /\ text' = v
    /\ ChangeHandler(timers, updateTimeout)
    /\ editedSinceSync' = FALSE
    /\ lastOp' = OpJson(IF type = activeTab THEN "setContentActive" ELSE "setContentOther",
                        type, <<>>, <<v>>)
    /\ UNCHANGED <<activeTab, editorMode, cbCount, fullscreen>>
    /\ UNCHANGED moduleVars

\* setContent(type, value)
SetContent(type, v) ==
    /\ content' = [content EXCEPT ![type] = v]
    /\ IF type = activeTab
       THEN /\ nextTimerId <= MaxTimers
            /\ text' = v
            /\ ChangeHandler(timers, updateTimeout)
            /\ editedSinceSync' = FALSE
            /\ lastOp' = OpJson("setContentActive", type, <<>>, <<v>>)
       ELSE /\ lastOp' = OpJson("setContentOther", type, <<>>, <<v>>)
            /\ UNCHANGED <<text, errorLines, timers, updateTimeout, nextTimerId, sinceChange,
                           burstLen, editedSinceSync>>
    /\ UNCHANGED <<activeTab, editorMode, cbCount, fullscreen>>
    /\ UNCHANGED moduleVars

\* mutant: getAllContent without 'Save current editor content first'
GetAllContentNoSave ==
    /\ content' = content
    /\ editedSinceSync' = FALSE
    /\ lastOp' = Op("getAllContent", "")
    /\ UNCHANGED <<activeTab, text, editorMode, errorLines, updateTimeout, timers,
                   nextTimerId, sinceChange, cbCount, burstLen, fullscreen>>
    /\ UNCHANGED moduleVars

GetAllContent ==
    /\ content' = [content EXCEPT ![activeTab] = text]
    /\ editedSinceSync' = FALSE
    /\ lastOp' = Op("getAllContent", "")
    /\ UNCHANGED <<activeTab, text, editorMode, errorLines, updateTimeout, timers,
                   nextTimerId, sinceChange, cbCount, burstLen, fullscreen>>
    /\ UNCHANGED moduleVars

\* the debounce timer t fires
TimerFire(t) ==
    /\ t \in timers
    /\ t.left = 0
    /\ timers' = timers \ {t}
    /\ IF text # content[activeTab]
       THEN /\ cbCount' = cbCount + 1
            /\ sent' = UpdateShader(sent)
       ELSE UNCHANGED <<cbCount, sent>>
    /\ updateTimeout' = NoTimer
    /\ lastOp' = Op("timerFire", "")
    /\ UNCHANGED <<activeTab, content, text, editorMode, errorLines, nextTimerId,
                   sinceChange, burstLen, editedSinceSync, fullscreen, moduleState>>

\* mutant: switchTab without `if (type === this.activeTab) return`
SwitchTabNoGuard(type, onSwitch) ==
    /\ nextTimerId <= MaxTimers
    /\ LET flush == updateTimeout # NoTimer
           tms == IF flush THEN ClearTimeout(timers, updateTimeout) ELSE timers
       IN  /\ ChangeHandler(tms, updateTimeout)
           /\ lastOp' = Op(IF type = activeTab THEN "switchTabSame"
                           ELSE IF flush /\ timers # tms THEN "switchTabFlush"
                           ELSE "switchTab", type)
           /\ IF flush /\ onSwitch = "updateShader"
              THEN /\ cbCount' = cbCount + 1
                   /\ sent' = UpdateShader(sent)
              ELSE UNCHANGED <<cbCount, sent>>
    /\ content' = [content EXCEPT ![activeTab] = text]
    /\ activeTab' = type
    /\ editorMode' = ModeOf(type)
    /\ text' = content'[type]
    /\ editedSinceSync' = FALSE
    /\ UNCHANGED moduleState

\* switchTab(type, onSwitch)
SwitchTab(type, onSwitch) ==
    IF type = activeTab
    THEN /\ lastOp' = Op("switchTabSame", type)
         /\ UNCHANGED <<activeTab, content, text, editorMode, errorLines, updateTimeout,
                        timers, nextTimerId, sinceChange, cbCount, burstLen, editedSinceSync>>
         /\ UNCHANGED moduleVars
    ELSE /\ nextTimerId <= MaxTimers
         /\ LET flush == updateTimeout # NoTimer
                tms == IF flush THEN ClearTimeout(timers, updateTimeout) ELSE timers
            IN  /\ ChangeHandler(tms, updateTimeout)
                /\ lastOp' = Op(IF flush /\ timers # tms THEN "switchTabFlush"
                                ELSE "switchTab", type)
                \* `if (onSwitch) onSwitch()`: the UI's callback has an empty body
                /\ IF flush /\ onSwitch = "updateShader"
                   THEN /\ cbCount' = cbCount + 1
                        /\ sent' = UpdateShader(sent)
                   ELSE UNCHANGED <<cbCount, sent>>
         /\ content' = [content EXCEPT ![activeTab] = text]
         /\ activeTab' = type
         /\ editorMode' = ModeOf(type)
         /\ text' = content'[type]
         /\ editedSinceSync' = FALSE
         /\ UNCHANGED moduleState

\* a click on a tab (UIManager.setupTabSwitching)
TabClick(type) ==
    /\ fullscreen' = FALSE
    /\ SwitchTab(type, "uiNoop")

\* a click on the resize button (UIManager.setupResizeButton)
ResizeClick ==
    /\ fullscreen' = ~fullscreen
    /\ lastOp' = Op("resize", "")
    /\ UNCHANGED <<activeTab, content, text, editorMode, errorLines, updateTimeout,
                   timers, nextTimerId, sinceChange, cbCount, burstLen, editedSinceSync>>
    /\ UNCHANGED moduleVars

\* time passes
Tick(d) ==
    /\ \/ \E t \in timers : t.left > 0
       \/ sinceChange < DebounceMs
    /\ timers' = {[id |-> t.id, left |-> Max(t.left - d, 0)] : t \in timers}
    /\ sinceChange' = Min(sinceChange + d, DebounceMs)
    /\ lastOp' = Op("tick", "")
    /\ UNCHANGED <<activeTab, content, text, editorMode, errorLines, updateTimeout,
                   nextTimerId, cbCount, burstLen, editedSinceSync, fullscreen>>
    /\ UNCHANGED moduleVars

\* editor.lineCount() for the widget text v: the default sources end with a
\* line break, so they have one line more than they have line breaks; any
\* other text stands for a single line
LineCount(v) ==
    CASE v = "dF" -> 17
      [] v = "dV" -> 12
      [] OTHER -> 1

\* the texts of 'wasm-stderr' events, each with the line number a reader
\* finds in it (NoLine: the text is not of the form 0:<line>:<text>)
NoLine == 0 - 1

ErrorCases ==
    {[text |-> <<"0", ":", "1", "2", ":", "e">>, line |-> 12],
     [text |-> <<"0", ":", "0", ":", "x">>, line |-> 0],
     [text |-> <<"0", ":", "1", ":", "x">>, line |-> 1],
     [text |-> <<"0", ":", "0", "1", "7", ":">>, line |-> 17],
     [text |-> <<"0", ":", "1", "8", ":", "e", ":", "1">>, line |-> 18],
     [text |-> <<"1", ":", "2", ":", "x">>, line |-> NoLine],
     [text |-> <<"0", ":", "a", ":", "x">>, line |-> NoLine],
     [text |-> <<"0", ":", "3">>, line |-> NoLine],
     [text |-> <<" ", "0", ":", "1", ":", "x">>, line |-> NoLine],
     [text |-> <<"0", ":", ":", "x">>, line |-> NoLine]}

ErrorTexts == {c.text : c \in ErrorCases}

DigitChars == <<"0", "1", "2", "3", "4", "5", "6", "7", "8", "9">>

IsDigit(c) == \E k \in 1..10 : DigitChars[k] = c

\* parseInt(digits, 10) for a text of decimal digits
ParseInt(digits) ==
    LET V[k \in 0..Len(digits)] ==
            IF k = 0 THEN 0
            ELSE 10 * V[k - 1] + (CHOOSE d \in 0..9 : DigitChars[d + 1] = digits[k])
    IN  V[Len(digits)]

\* text.match(/^0:(\d+):(.*)$/): the first group, <<>> when there is no match
MatchLine(e) ==
    LET stop == {k \in 3..Len(e) : ~IsDigit(e[k])}
        end == IF stop = {} THEN Len(e) + 1
               ELSE CHOOSE k \in stop : \A j \in stop : k <= j
    IN  IF /\ Len(e) >= 4
           /\ e[1] = "0"
           /\ e[2] = ":"
           /\ end > 3
           /\ end <= Len(e)
           /\ e[end] = ":"
           /\ \A k \in end + 1..Len(e) : e[k] # "\n"
        THEN SubSeq(e, 3, end - 1)
        ELSE <<>>

\* mutant: the reported line taken as the widget's line
ErrorEventOneBased(e) ==
    /\ LET m == MatchLine(e)
           cmLine == ParseInt(m)
       IN  errorLines' = IF m # <<>> /\ cmLine >= 0 /\ cmLine < LineCount(text)
                         THEN errorLines \cup {cmLine} ELSE errorLines
    /\ lastOp' = OpJson("stderr", "", <<>>, e)
    /\ UNCHANGED <<activeTab, content, text, editorMode, updateTimeout, timers,
                   nextTimerId, sinceChange, cbCount, burstLen, editedSinceSync, fullscreen>>
    /\ UNCHANGED moduleVars

\* mutant: a reported line 0 is taken as the first line
ErrorEventClamped(e) ==
    /\ LET m == MatchLine(e)
           cmLine == Max(ParseInt(m) - 1, 0)
       IN  errorLines' = IF m # <<>> /\ cmLine >= 0 /\ cmLine < LineCount(text)
                         THEN errorLines \cup {cmLine} ELSE errorLines
    /\ lastOp' = OpJson("stderr", "", <<>>, e)
    /\ UNCHANGED <<activeTab, content, text, editorMode, updateTimeout, timers,
                   nextTimerId, sinceChange, cbCount, burstLen, editedSinceSync, fullscreen>>
    /\ UNCHANGED moduleVars

\* the 'wasm-stderr' listener of setupErrorHighlighting, for the event text e
ErrorEvent(e) ==
    /\ LET m == MatchLine(e)
           cmLine == ParseInt(m) - 1
       IN  errorLines' = IF m # <<>> /\ cmLine >= 0 /\ cmLine < LineCount(text)
                         THEN errorLines \cup {cmLine} ELSE errorLines
    /\ lastOp' = OpJson("stderr", "", <<>>, e)
    /\ UNCHANGED <<activeTab, content, text, editorMode, updateTimeout, timers,
                   nextTimerId, sinceChange, cbCount, burstLen, editedSinceSync, fullscreen>>
    /\ UNCHANGED moduleVars

\* the execution module's script defines window.Module.ccall
ModuleAppears ==
    /\ ~moduleHasCcall
    /\ moduleHasCcall' = TRUE
    /\ moduleHandle' = TRUE
    /\ lastOp' = Op("moduleAppears", "")
    /\ UNCHANGED <<sent, moduleLoaded, moduleHasFS>>

InitEditor ==
    /\ activeTab = "frag"
    /\ content = [t \in Tabs |-> IF t = "frag" THEN "dF" ELSE "dV"]
    /\ text = "dF"
    /\ editorMode = ModeOf("frag")
    /\ errorLines = {}
    /\ updateTimeout = NoTimer
    /\ timers = {}
    /\ nextTimerId = 1
    /\ sinceChange = DebounceMs
    /\ cbCount = 0
    /\ burstLen = 0
    /\ editedSinceSync = FALSE
    /\ fullscreen = FALSE

InitModule ==
    /\ moduleHasCcall = FALSE
    /\ moduleHandle = FALSE
    /\ moduleLoaded = FALSE
    /\ moduleHasFS = FALSE
    /\ externalAssets = <<>>
    /\ assets = <<>>
    /\ batch = "idle"
    /\ applying = [pos |-> "idle", json |-> NoDocument]
    /\ applied = <<>>
    /\ cmdsHistory = <<>>
    /\ ccalls = {}
    /\ sent = [t \in Tabs |-> NoText]


----------------------------------------------------------------------------
(* GlslViewerIntegration: the bridge to the execution module *)

\* Command texts are sequences of characters, so that startsWith, the first
\* token and `cmd + ',' + answer` are computed on the characters.

cmds_state ==
    <<<<"p", "l", "o", "t">>,
      <<"t", "e", "x", "t", "u", "r", "e", "s">>,
      <<"b", "u", "f", "f", "e", "r", "s">>,
      <<"f", "l", "o", "o", "r">>,
      <<"c", "u", "b", "e", "m", "a", "p">>,
      <<"a", "x", "i", "s">>,
      <<"g", "r", "i", "d">>,
      <<"b", "b", "o", "x", "e", "s">>,
      <<"f", "u", "l", "l", "s", "c", "r", "e", "e", "n">>>>

cmds_camera ==
    <<<<"c", "a", "m", "e", "r", "a", "_", "p", "o", "s", "i", "t", "i", "o", "n">>,
      <<"c", "a", "m", "e", "r", "a", "_", "l", "o", "o", "k", "_", "a", "t">>,
      <<"c", "a", "m", "e", "r", "a">>>>

cmds_listen ==
    <<<<"p", "l", "a", "n", "e">>,
      <<"p", "c", "l", "_", "p", "l", "a", "n", "e">>,
      <<"s", "p", "h", "e", "r", "e">>,
      <<"p", "c", "l", "_", "s", "p", "h", "e", "r", "e">>,
      <<"i", "c", "o", "s", "p", "h", "e", "r", "e">>,
      <<"c", "y", "l", "i", "n", "d", "e", "r">>>>

\* the texts sendCommand is called with: a listed name with an argument, a
\* longer name that begins with a listed one, a state command
CommandTexts ==
    {<<"s", "p", "h", "e", "r", "e", ",", "1">>,
     <<"s", "p", "h", "e", "r", "e", "s", ",", "1">>,
     <<"p", "l", "o", "t", ",", "o", "f", "f">>}

\* the elements of an array
Range(s) == {s[i] : i \in 1..Len(s)}

\* cmd.startsWith(c)
StartsWith(cmd, c) == Len(c) <= Len(cmd) /\ SubSeq(cmd, 1, Len(c)) = c

\* the text before the first comma (the whole text when it has none)
FirstToken(cmd) ==
    LET commas == {i \in 1..Len(cmd) : cmd[i] = ","}
    IN  IF commas = {} THEN cmd
        ELSE SubSeq(cmd, 1, (CHOOSE i \in commas : \A j \in commas : i <= j) - 1)

\* mutant: the first token must be one of the listed names
ListenedFirstToken(cmd) == FirstToken(cmd) \in Range(cmds_listen)

\* cmds_listen.some(c => cmd.startsWith(c))
Listened(cmd) == \E i \in 1..Len(cmds_listen) : StartsWith(cmd, cmds_listen[i])

\* mutant: no removal of duplicates
DedupNone(s) == s

\* [...new Set(s)]: the first occurrence of every element, in order
Dedup(s) ==
    LET F[i \in 0..Len(s)] ==
            IF i = 0 THEN <<>>
            ELSE IF s[i] \in Range(F[i - 1]) THEN F[i - 1] ELSE Append(F[i - 1], s[i])
    IN  F[Len(s)]

\* const cmds_to_check = [...new Set([...cmds_state, ...cmds_camera])]
cmds_to_check == Dedup(cmds_state \o cmds_camera)

\* null, as an answer: apart from every text
NullAnswer == <<"null">>

\* the texts the module's query entry point answers with
AnswerTexts == {<<"o", "n">>}

\* the answers of the module to the queries of one getRetainedState call: a
\* text for the names in some set S, and for the others either '' or an
\* exception (query then returns null)
AnswerMaps ==
    {[k \in 1..Len(cmds_to_check) |-> IF k \in S THEN v ELSE silent] :
        S \in SUBSET {k \in 1..Len(cmds_to_check) : k > Len(cmds_to_check) - MaxAnswered},
        v \in AnswerTexts, silent \in {NullAnswer, <<>>}}

\* isModuleReady()
isModuleReady == moduleHandle /\ moduleLoaded

\* `if (answer)`: neither null nor ''
Truthy(answer) == answer # NullAnswer /\ answer # <<>>

\* query(cmd) with the module answering `answer` (NullAnswer: ccall throws)
QueryResult(answer) == IF moduleHasCcall THEN answer ELSE NullAnswer

\* the entry point a bridge method calls, if the guard lets it
Ccall(name) == IF moduleHasCcall THEN {name} ELSE {}

\* sendCommand(cmd); threw: the module's command entry point throws
SendCommand(cmd, threw) ==
    /\ cmdsHistory' = IF Listened(cmd) THEN Append(cmdsHistory, cmd) ELSE cmdsHistory
    /\ ccalls' = Ccall("command")
    /\ lastOp' = OpJson("sendCommand",
                        IF ~moduleHasCcall THEN "notReady"
                        ELSE IF threw THEN "threw" ELSE "sent",
                        <<>>, cmd)
    /\ UNCHANGED moduleVars

\* query(cmd)
Query(answer) ==
    /\ ccalls' = Ccall("query")
    /\ lastOp' = OpJson("query", "", <<>>, QueryResult(answer))
    /\ UNCHANGED <<cmdsHistory, moduleVars>>

\* the array getRetainedState returns for the history h and the answers
RetainedState(h, answers) ==
    LET R[k \in 0..Len(cmds_to_check)] ==
            IF k = 0 THEN h
            ELSE LET answer == QueryResult(answers[k])
                 IN  IF Truthy(answer)
                     THEN Append(R[k - 1], cmds_to_check[k] \o <<",">> \o answer)
                     ELSE R[k - 1]
    IN  Dedup(R[Len(cmds_to_check)])

\* getRetainedState()
GetRetainedState(answers) ==
    /\ ccalls' = Ccall("query")
    /\ lastOp' = OpJson("getRetainedState", "", answers, RetainedState(cmdsHistory, answers))
    /\ UNCHANGED <<cmdsHistory, moduleVars>>

\* setFrag(code) / setVert(code)
SetSource(tab, code) ==
    /\ sent' = SetShader(sent, tab, code)
    /\ ccalls' = Ccall(IF tab = "frag" THEN "setFrag" ELSE "setVert")
    /\ lastOp' = Op(IF tab = "frag" THEN "setFrag" ELSE "setVert", code)
    /\ UNCHANGED <<cmdsHistory, moduleState>>

\* getDefaultSceneFrag() / getDefaultSceneVert(); threw: the entry point throws
GetDefaultScene(tab, threw) ==
    /\ ccalls' = Ccall(IF tab = "frag" THEN "getDefaultSceneFrag" ELSE "getDefaultSceneVert")
    /\ lastOp' = Op("getDefaultScene",
                    IF ~moduleHasCcall \/ threw THEN NoText
                    ELSE IF tab = "frag" THEN "dF" ELSE "dV")
    /\ UNCHANGED <<cmdsHistory, moduleVars>>

\* the page defines window.Module
ModuleDefined ==
    /\ ~moduleHandle
    /\ moduleHandle' = TRUE
    /\ lastOp' = Op("moduleDefined", "")
    /\ UNCHANGED <<moduleHasCcall, moduleLoaded, moduleHasFS, sent, bridgeVars>>

\* the module's script attaches ccall to window.Module
CcallAttached ==
    /\ moduleHandle
    /\ ~moduleHasCcall
    /\ moduleHasCcall' = TRUE
    /\ lastOp' = Op("ccallAttached", "")
    /\ UNCHANGED <<moduleHandle, moduleLoaded, moduleHasFS, sent, bridgeVars>>

\* the module sets window.module_loaded
ModuleLoaded ==
    /\ ~moduleLoaded
    /\ moduleLoaded' = TRUE
    /\ lastOp' = Op("moduleLoaded", "")
    /\ UNCHANGED <<moduleHasCcall, moduleHandle, moduleHasFS, sent, bridgeVars>>

----------------------------------------------------------------------------
(* GlslViewerModule: assets *)

\* `if (attempts > 20)` in loadToWasm
MaxAttempts == 20

\* `setTimeout(tryWrite, 500)` in loadToWasm
PollMs == 500

\* the time that passes in one step
AssetTickMs == PollMs

\* the entries assets mappings are made of, each a name and a URL: a data
\* URL without a payload, a remote URL, a data URL that decodes
AssetPool ==
    <<[name |-> <<"b", ".", "h", "d", "r">>,
       url |-> <<"d", "a", "t", "a", ":", "x">>],
      [name |-> <<"e", ".", "H", "D", "R">>,
       url |-> <<"h", ":", "e">>],
      [name |-> <<"a", ".", "p", "n", "g">>,
       url |-> <<"d", "a", "t", "a", ":", ",", "A", "A">>]>>

\* Object.entries(assets) for the mappings with at most MaxAssets of these
\* entries, inserted in this order
AssetMappings ==
    {[i \in 1..Cardinality(S) |->
         AssetPool[CHOOSE k \in S : Cardinality({j \in S : j <= k}) = i]] :
     S \in {T \in SUBSET (1..Len(AssetPool)) : Cardinality(T) <= MaxAssets}}

DataPrefix == <<"d", "a", "t", "a", ":">>

CubemapOn == <<"c", "u", "b", "e", "m", "a", "p", ",", "o", "n">>

\* the characters window.atob accepts (those the pool uses)
Base64Alphabet == {"A", "Q", "x", "+", "/"}

\* dataUrl.split(',')[1]: the text between the first and the second comma;
\* <<"undefined">> when the text has no comma
SplitSecond(dataUrl) ==
    LET commas == {i \in 1..Len(dataUrl) : dataUrl[i] = ","}
    IN  IF commas = {} THEN <<"undefined">>
        ELSE LET first == CHOOSE i \in commas : \A j \in commas : i <= j
                 later == {i \in commas : i > first}
                 last  == IF later = {} THEN Len(dataUrl) + 1
                          ELSE CHOOSE i \in later : \A j \in later : i <= j
             IN  SubSeq(dataUrl, first + 1, last - 1)

\* window.atob(base64) throws: undefined is read as the text 'undefined',
\* whose length is 9
AtobThrows(base64) ==
    IF base64 = <<"undefined">> THEN TRUE
    ELSE \/ \E i \in 1..Len(base64) : base64[i] \notin Base64Alphabet
         \/ Len(base64) % 4 = 1

\* decodeBase64(dataUrl) throws
DecodeThrows(dataUrl) == AtobThrows(SplitSecond(dataUrl))

\* name.split('.').pop(): the text after the last dot (the whole name when
\* it has none)
Ext(name) ==
    LET dots == {i \in 1..Len(name) : name[i] = "."}
    IN  IF dots = {} THEN name
        ELSE SubSeq(name, (CHOOSE i \in dots : \A j \in dots : i >= j) + 1, Len(name))

\* mutant: the extension is passed as written
ToLowerCaseNone(s) == s

\* toLowerCase() on the letters the pool uses
ToLowerCase(s) ==
    [i \in 1..Len(s) |->
        CASE s[i] = "H" -> "h"
          [] s[i] = "D" -> "d"
          [] s[i] = "R" -> "r"
          [] s[i] = "V" -> "v"
          [] s[i] = "S" -> "s"
          [] OTHER -> s[i]]

\* the state of one asset before its pipeline starts
NewAsset(e) ==
    [name |-> e.name, url |-> e.url, stage |-> "new", attempts |-> 0,
     left |-> 0, waited |-> 0, events |-> <<>>, ext |-> <<>>]

\* how FS.writeFile ends in an attempt that finds the filesystem; the
\* registration that follows throws when Module.ccall is missing
Outcomes == {"ok", "writeThrows"}

\* the try block of tryWrite, attempt n of the asset a
WriteAndRegister(a, n, out) ==
    LET ext == ToLowerCase(Ext(a.name))
        end == IF out = "ok" /\ ~moduleHasCcall THEN "registerThrows" ELSE out
    IN  [a EXCEPT !.attempts = n, !.stage = "resolved",
                  !.events =
                      CASE end = "writeThrows" -> <<"update", "writeError">>
                        [] end = "registerThrows" ->
                               <<"update", "write", "log", "registerError">>
                        [] OTHER ->
                               <<"update", "write", "log", "register">>
                               \o (IF ext = <<"h", "d", "r">>
                                   THEN <<"cubemap">> ELSE <<>>),
                  !.ext = IF end = "ok" THEN ext ELSE <<>>]

\* mutant: tryWrite without the ceiling on attempts
TryWriteNoCeiling(a, out) ==
    LET n == a.attempts + 1
    IN  IF moduleHandle /\ moduleHasFS /\ moduleLoaded
        THEN WriteAndRegister(a, n, out)
        ELSE [a EXCEPT !.attempts = n, !.stage = "poll", !.left = PollMs]

\* one run of tryWrite for the asset a
TryWrite(a, out) ==
    LET n == a.attempts + 1
    IN  IF n > MaxAttempts
        THEN [a EXCEPT !.attempts = n, !.stage = "resolved",
                       !.events = Append(@, "timeout")]
        ELSE IF moduleHandle /\ moduleHasFS /\ moduleLoaded
        THEN WriteAndRegister(a, n, out)
        ELSE [a EXCEPT !.attempts = n, !.stage = "poll", !.left = PollMs]

Has(a, tag) == \E k \in 1..Len(a.events) : a.events[k] = tag

\* what the attempts that turn `before` into `after` do outside the assets:
\* updateLoaderCallback, the loadAsset entry point, sendCommand('cubemap,on')
AssetEffects(before, after) ==
    LET fresh(tag) == {i \in 1..Len(after) :
                           /\ Has(after[i], tag)
                           /\ ~(i <= Len(before) /\ Has(before[i], tag))}
        H[k \in 0..Len(after)] ==
            IF k = 0 THEN cmdsHistory
            ELSE IF k \in fresh("cubemap") /\ Listened(CubemapOn)
                 THEN Append(H[k - 1], CubemapOn) ELSE H[k - 1]
    IN  /\ loaderText' = IF fresh("update") # {} /\ loaderPresent
                         THEN "Loading asset" ELSE loaderText
        /\ cmdsHistory' = H[Len(after)]
        /\ ccalls' = IF fresh("cubemap") # {} THEN {"command"}
                     ELSE IF fresh("register") # {} THEN {"loadAsset"}
                     ELSE ccalls
        /\ UNCHANGED <<loaderPresent, loaderCount, loaderVisible, nShow, nHide, nClamped>>

\* the promise of one entry right after the loop of loadAssetsFromGist
StartAsset(e, out) ==
    IF StartsWith(e.url, DataPrefix)
    THEN IF DecodeThrows(e.url)
         THEN [NewAsset(e) EXCEPT !.stage = "resolved", !.events = <<"decodeError">>]
         ELSE TryWrite(NewAsset(e), out)
    ELSE [NewAsset(e) EXCEPT !.stage = "download"]

\* mutant: loadAssetsFromGist without the try/catch around decodeBase64
LoadAssetsFromGistNoCatch(b, outs) ==
    LET bad == {i \in 1..Len(b) :
                    StartsWith(b[i].url, DataPrefix) /\ DecodeThrows(b[i].url)}
        n == IF bad = {} THEN Len(b)
             ELSE (CHOOSE i \in bad : \A j \in bad : i <= j) - 1
        started == [i \in 1..n |-> StartAsset(b[i], outs[i])]
    IN  /\ batch = "idle"
        /\ externalAssets' = b
        /\ assets' = started
        /\ batch' = IF bad = {} THEN "pending" ELSE "rejected"
        /\ lastOp' = Op("loadAssetsFromGist", "")
        /\ AssetEffects(<<>>, started)
        /\ UNCHANGED moduleVars

\* loadAssetsFromGist(assets, updateLoaderCallback) up to its return
LoadAssetsFromGist(b, outs) ==
    LET started == [i \in 1..Len(b) |-> StartAsset(b[i], outs[i])]
    IN  /\ batch = "idle"
        /\ externalAssets' = b
        /\ assets' = started
        /\ batch' = "pending"
        /\ lastOp' = Op("loadAssetsFromGist", "")
        /\ AssetEffects(<<>>, started)
        /\ UNCHANGED moduleVars

\* downloadAsset: fetch(url) settles (res: the response is ok, is not ok,
\* or the fetch rejects); a failure ends in the catch of the entry
DownloadSettles(i, res) ==
    /\ i \in 1..Len(assets)
    /\ assets[i].stage = "download"
    /\ assets' = [assets EXCEPT ![i] =
                    IF res = "ok" THEN [@ EXCEPT !.stage = "body"]
                    ELSE [@ EXCEPT !.stage = "resolved",
                                   !.events = <<"downloadError">>]]
    /\ lastOp' = Op("downloadSettles", res)
    /\ UNCHANGED <<loaderVars, moduleVars, bridgeVars, externalAssets, batch>>

\* downloadAsset: res.arrayBuffer() settles; with the bytes, loadToWasm
\* starts and runs tryWrite once
BodySettles(i, res, out) ==
    /\ i \in 1..Len(assets)
    /\ assets[i].stage = "body"
    /\ assets' = [assets EXCEPT ![i] =
                    IF res = "ok" THEN TryWrite(@, out)
                    ELSE [@ EXCEPT !.stage = "resolved",
                                   !.events = <<"downloadError">>]]
    /\ lastOp' = Op("bodySettles", res)
    /\ AssetEffects(assets, assets')
    /\ UNCHANGED <<moduleVars, externalAssets, batch>>

\* AssetTickMs pass; no timer that is due is left waiting
AssetTick ==
    /\ \E i \in 1..Len(assets) : assets[i].stage = "poll"
    /\ \A i \in 1..Len(assets) :
           assets[i].stage = "poll" => assets[i].left >= AssetTickMs
    /\ assets' = [i \in 1..Len(assets) |->
                    IF assets[i].stage = "poll"
                    THEN [assets[i] EXCEPT !.left = @ - AssetTickMs,
                                           !.waited = @ + AssetTickMs]
                    ELSE assets[i]]
    /\ lastOp' = Op("assetTick", "")
    /\ UNCHANGED <<loaderVars, moduleVars, bridgeVars, externalAssets, batch>>

\* the timer of asset i fires: tryWrite runs again
TryWriteStep(i, out) ==
    /\ i \in 1..Len(assets)
    /\ assets[i].stage = "poll"
    /\ assets[i].left = 0
    /\ assets' = [assets EXCEPT ![i] = TryWrite(@, out)]
    /\ lastOp' = Op("tryWrite", "")
    /\ AssetEffects(assets, assets')
    /\ UNCHANGED <<moduleVars, externalAssets, batch>>

\* Promise.all(assetPromises) settles
BatchSettles ==
    /\ batch = "pending"
    /\ \A i \in 1..Len(assets) : assets[i].stage \in {"resolved", "rejected"}
    /\ batch' = IF \E i \in 1..Len(assets) : assets[i].stage = "rejected"
                THEN "rejected" ELSE "resolved"
    /\ lastOp' = Op("batchSettles", "")
    /\ UNCHANGED <<loaderVars, moduleVars, bridgeVars, externalAssets, assets>>

\* the module's script attaches FS to window.Module
FSAttached ==
    /\ moduleHandle
    /\ ~moduleHasFS
    /\ moduleHasFS' = TRUE
    /\ lastOp' = Op("fsAttached", "")
    /\ UNCHANGED <<moduleHasCcall, moduleHandle, moduleLoaded, sent, bridgeVars>>

----------------------------------------------------------------------------
(* The page: the onSuccess callback of loadGist *)

FullscreenPrefix == <<"f", "u", "l", "l", "s", "c", "r", "e", "e", "n", ",">>

\* the commands a document lists: one for the UI, one the bridge records, one
\* that only looks like the UI's
DocCommandTexts ==
    {<<"f", "u", "l", "l", "s", "c", "r", "e", "e", "n", ",", "o", "n">>,
     <<"s", "p", "h", "e", "r", "e", ",", "1">>,
     <<"f", "u", "l", "l", "s", "c", "r", "e", "e", "n">>}

\* the documents onSuccess is called with ("" stands for a missing source,
\* hasAssets for a json.assets that is there)
Documents ==
    {[frag |-> f, vert |-> v, hasAssets |-> a.has, assets |-> a.map, commands |-> c] :
        f \in {"", "x"}, v \in {"", "x"},
        a \in {[has |-> FALSE, map |-> <<>>]} \cup {[has |-> TRUE, map |-> m] : m \in AssetMappings},
        c \in UNION {[1..n -> DocCommandTexts] : n \in 0..MaxDocCommands}}

\* a call the callback makes
Event(kind, cmd) == [ev |-> kind, cmd |-> cmd]

\* onSuccess(json) up to `await glslviewer.loadAssetsFromGist(...)`: what it
\* does to the page
OnSuccessStart(json, outs) ==
    /\ applying.pos = "idle"
    /\ LET wf == json.frag # ""
           wv == json.vert # ""
           content1 == [t \in Tabs |->
                           IF t = "frag" /\ wf THEN json.frag
                           ELSE IF t = "vert" /\ wv THEN json.vert
                           ELSE content[t]]
           activeWritten == (activeTab = "frag" /\ wf) \/ (activeTab = "vert" /\ wv)
           text1 == IF activeWritten THEN content1[activeTab] ELSE text
           started == [i \in 1..Len(json.assets) |-> StartAsset(json.assets[i], outs[i])]
       IN  /\ content' = content1
           /\ text' = text1
           /\ IF activeWritten
              THEN /\ nextTimerId <= MaxTimers
                   /\ ChangeHandler(timers, updateTimeout)
                   /\ editedSinceSync' = FALSE
              ELSE UNCHANGED <<errorLines, timers, updateTimeout, nextTimerId,
                               sinceChange, burstLen, editedSinceSync>>
           /\ sent' = SetShader(sent, activeTab, text1)
           /\ IF json.hasAssets
              THEN /\ externalAssets' = json.assets
                   /\ assets' = started
                   /\ batch' = "pending"
                   /\ AssetEffects(<<>>, started)
              ELSE UNCHANGED <<externalAssets, assets, batch, loaderVars, bridgeVars>>
           /\ applied' = (IF wf THEN <<Event("setContent", <<"f", "r", "a", "g">>)>> ELSE <<>>)
                         \o (IF wv THEN <<Event("setContent", <<"v", "e", "r", "t">>)>> ELSE <<>>)
                         \o <<Event("updateShader", <<>>)>>
                         \o (IF json.hasAssets THEN <<Event("loadAssetsFromGist", <<>>)>> ELSE <<>>)
    /\ applying' = [pos |-> "await", json |-> json]
    /\ UNCHANGED <<activeTab, editorMode, cbCount, fullscreen, moduleState>>

\* onSuccess(json) called on its own
OnSuccess(json, outs) ==
    /\ OnSuccessStart(json, outs)
    /\ lastOp' = Op("onSuccess", "")

\* onSuccess from `// Apply commands` to its end
ApplyCommandsAndResend ==
    LET cmds == applying.json.commands
        isUi(c) == StartsWith(c, FullscreenPrefix)
        F[k \in 0..Len(cmds)] ==
            IF k = 0 THEN fullscreen
            ELSE IF isUi(cmds[k]) THEN SplitSecond(cmds[k]) = <<"o", "n">>
            ELSE F[k - 1]
        H[k \in 0..Len(cmds)] ==
            IF k = 0 THEN cmdsHistory
            ELSE IF ~isUi(cmds[k]) /\ Listened(cmds[k]) THEN Append(H[k - 1], cmds[k])
            ELSE H[k - 1]
        content2 == [content EXCEPT ![activeTab] = text]
        c == loaderCount - 1
        reset == loaderPresent /\ c <= 0
    IN  /\ fullscreen' = F[Len(cmds)]
        /\ cmdsHistory' = H[Len(cmds)]
        /\ ccalls' = Ccall("setVert")
        /\ content' = content2
        /\ editedSinceSync' = FALSE
        /\ sent' = SetShader(SetShader(sent, "frag", content2["frag"]), "vert", content2["vert"])
        /\ loaderCount' = IF reset THEN 0 ELSE c
        /\ loaderVisible' = IF reset THEN FALSE ELSE loaderVisible
        /\ loaderText' = IF reset THEN DefaultLoaderText ELSE loaderText
        /\ nClamped' = IF reset /\ c < 0 THEN nClamped + 1 ELSE nClamped
        /\ nHide' = nHide + 1
        /\ applied' = applied
                      \o [k \in 1..Len(cmds) |->
                             Event(IF isUi(cmds[k]) THEN "setFullscreen" ELSE "sendCommand",
                                   cmds[k])]
                      \o <<Event("setFrag", <<>>), Event("setVert", <<>>),
                           Event("hideLoader", <<>>)>>
        /\ applying' = [applying EXCEPT !.pos = "done"]
        /\ lastOp' = Op("onSuccessResume", "")
        /\ UNCHANGED <<activeTab, text, editorMode, errorLines, updateTimeout, timers,
                       nextTimerId, sinceChange, cbCount, burstLen>>
        /\ UNCHANGED <<moduleState, loaderPresent, nShow, externalAssets, assets, batch>>

\* a command of a document that is not a string ("commands": [1])
NotAString == <<"number">>

IsString(cmd) == cmd # NotAString

\* the commands of the document onSuccess is applying that are not strings
BadCommands == {k \in 1..Len(applying.json.commands) : ~IsString(applying.json.commands[k])}

\* onSuccess from `// Apply commands` when a command is not a string:
\* cmd.startsWith throws inside the forEach, the async callback's promise is
\* rejected, and loadGist, which does not await it, never sees the rejection
ApplyCommandsThrows ==
    LET cmds == applying.json.commands
        n == (CHOOSE k \in BadCommands : \A j \in BadCommands : k <= j) - 1
        isUi(c) == StartsWith(c, FullscreenPrefix)
        F[k \in 0..n] ==
            IF k = 0 THEN fullscreen
            ELSE IF isUi(cmds[k]) THEN SplitSecond(cmds[k]) = <<"o", "n">>
            ELSE F[k - 1]
        H[k \in 0..n] ==
            IF k = 0 THEN cmdsHistory
            ELSE IF ~isUi(cmds[k]) /\ Listened(cmds[k]) THEN Append(H[k - 1], cmds[k])
            ELSE H[k - 1]
    IN  /\ fullscreen' = F[n]
        /\ cmdsHistory' = H[n]
        /\ ccalls' = IF \E k \in 1..n : ~isUi(cmds[k]) THEN Ccall("command") ELSE ccalls
        /\ applied' = applied
                      \o [k \in 1..n |->
                             Event(IF isUi(cmds[k]) THEN "setFullscreen" ELSE "sendCommand",
                                   cmds[k])]
        /\ applying' = [applying EXCEPT !.pos = "threw"]
        /\ lastOp' = Op("onSuccessThrew", "")
        /\ UNCHANGED <<activeTab, content, text, editorMode, errorLines, updateTimeout, timers,
                       nextTimerId, sinceChange, cbCount, burstLen, editedSinceSync>>
        /\ UNCHANGED <<moduleVars, loaderVars, externalAssets, assets, batch>>

\* mutant: onSuccess without the await
OnSuccessResumeNoAwait ==
    /\ applying.pos = "await"
    /\ ApplyCommandsAndResend

\* onSuccess resumes once the promise of loadAssetsFromGist is resolved
OnSuccessResume ==
    /\ applying.pos = "await"
    /\ applying.json.hasAssets => batch = "resolved"
    /\ IF BadCommands # {} THEN ApplyCommandsThrows ELSE ApplyCommandsAndResend

----------------------------------------------------------------------------
(* The page: the drop handler *)

\* the effect of showLoader(msg) on the loader
LoaderShow(msg) ==
    /\ loaderCount' = loaderCount + 1
    /\ loaderText' = IF msg # "" /\ loaderPresent THEN msg ELSE loaderText
    /\ loaderVisible' = IF loaderPresent /\ loaderCount + 1 > 0 THEN TRUE ELSE loaderVisible
    /\ nShow' = nShow + 1
    /\ UNCHANGED <<loaderPresent, nHide, nClamped>>

\* the effect of hideLoader() on the loader
LoaderHide ==
    LET c == loaderCount - 1
        reset == loaderPresent /\ c <= 0
    IN  /\ loaderCount' = IF reset THEN 0 ELSE c
        /\ loaderVisible' = IF reset THEN FALSE ELSE loaderVisible
        /\ loaderText' = IF reset THEN DefaultLoaderText ELSE loaderText
        /\ nClamped' = IF reset /\ c < 0 THEN nClamped + 1 ELSE nClamped
        /\ nHide' = nHide + 1
        /\ UNCHANGED <<loaderPresent, nShow>>

\* the files a user drops: the name, the text readAsText gives, the data
\* URL readAsDataURL gives
DropPool ==
    <<[name |-> <<"a", ".", "f", "r", "a", "g">>, text |-> "x", url |-> <<>>],
      [name |-> <<"b", ".", "V", "S">>, text |-> "x", url |-> <<>>],
      [name |-> <<"c", ".", "p", "n", "g">>, text |-> NoText,
       url |-> <<"d", "a", "t", "a", ":", ",", "A", "A">>],
      [name |-> <<"m", ".", "o", "b", "j">>, text |-> NoText,
       url |-> <<"d", "a", "t", "a", ":", ",", "A", "A">>]>>

\* the file lists of a drop event
DropLists == UNION {[1..n -> 1..Len(DropPool)] : n \in 1..MaxDropFiles}

FragExts == {<<"f", "r", "a", "g">>, <<"f", "s">>}

VertExts == {<<"v", "e", "r", "t">>, <<"v", "s">>}

\* `ext === 'frag' || ext === 'fs' || ext === 'vert' || ext === 'vs'`
ShaderExts == FragExts \cup VertExts

\* `ext === 'frag' || ext === 'fs' ? 'frag' : 'vert'`
ShaderType(ext) == IF ext \in FragExts THEN "frag" ELSE "vert"

\* ['ply', 'obj', 'gltf', 'glb', 'splat']
ModelExts == {<<"p", "l", "y">>, <<"o", "b", "j">>, <<"g", "l", "t", "f">>,
              <<"g", "l", "b">>, <<"s", "p", "l", "a", "t">>}

SkyOn == <<"s", "k", "y", ",", "o", "n">>

\* this.externalAssets[name] = dataURL, on the entries of the mapping
PutAsset(m, name, url) ==
    IF \E k \in 1..Len(m) : m[k].name = name
    THEN [k \in 1..Len(m) |-> IF m[k].name = name THEN [m[k] EXCEPT !.url = url] ELSE m[k]]
    ELSE Append(m, [name |-> name, url |-> url])

\* the texts the module's getDefaultSceneFrag / getDefaultSceneVert return
\* (NoText: the entry point throws)
BackendTexts == {"x", NoText}

pageRest == <<consoleOut, pageUrl, loginBtnText, saveBtnDisplay, checkModule, setupState>>

\* the 'drop' listener with the files fs, up to the return of the handler:
\* every file is being read. (The files are dropped once the module is up,
\* so that loadToWasm writes at its first attempt; SpecLoadToWasm has the
\* attempts of a write that has to wait.)
DropFiles(fs) ==
    /\ isModuleReady /\ moduleHasFS
    /\ LoaderShow("")
    /\ drops' = Append(drops,
                   [files |-> [i \in 1..Len(fs) |->
                                  [name |-> DropPool[fs[i]].name,
                                   text |-> DropPool[fs[i]].text,
                                   url |-> DropPool[fs[i]].url,
                                   stage |-> "reading"]],
                    finished |-> FALSE])
    /\ lastOp' = Op("drop", "")
    /\ UNCHANGED <<editorVars, moduleVars, bridgeVars, assetVars, pageRest>>

\* the FileReader of file i of drop d ends (res: 'load' or 'error'): the
\* onload / onerror handler of handleFileDrop. out: how FS.writeFile ends
ReadSettles(d, i, res, out) ==
    /\ d \in 1..Len(drops)
    /\ i \in 1..Len(drops[d].files)
    /\ drops[d].files[i].stage = "reading"
    /\ LET f == drops[d].files[i]
           ext == ToLowerCase(Ext(f.name))
           to(stage) == [drops EXCEPT ![d].files[i].stage = stage]
           a == TryWrite(NewAsset([name |-> f.name, url |-> f.url]), out)
       IN  IF res = "error"
           THEN /\ drops' = to("rejected")
                /\ lastOp' = Op("readError", "")
                /\ UNCHANGED <<loaderVars, editorVars, moduleVars, bridgeVars, assetVars>>
           ELSE IF ext \in ShaderExts
           THEN \* onShaderUpdate: editorManager.setContent(type, data); resolve()
                /\ SetContent(ShaderType(ext), f.text)
                /\ drops' = to("resolved")
                /\ UNCHANGED <<loaderVars, bridgeVars, assetVars>>
           ELSE /\ externalAssets' = PutAsset(externalAssets, f.name, f.url)
                /\ IF DecodeThrows(f.url)
                   THEN \* the handler throws: the promise never settles
                        /\ drops' = to("pending")
                        /\ UNCHANGED <<loaderVars, bridgeVars>>
                   ELSE /\ drops' = to(IF a.stage = "resolved" THEN "then" ELSE "wasm")
                        /\ AssetEffects(<<>>, <<a>>)
                /\ lastOp' = Op("readAsset", "")
                /\ UNCHANGED <<editorVars, moduleVars, assets, batch, applyVars>>
    /\ UNCHANGED pageRest

\* the callback the handler chains to handleFileDrop for an asset file
\* (sf, sv: what the module's default scene entry points return)
DropAssetThen(d, i, sf, sv) ==
    /\ d \in 1..Len(drops)
    /\ i \in 1..Len(drops[d].files)
    /\ drops[d].files[i].stage = "then"
    /\ LET f == drops[d].files[i]
           ext == ToLowerCase(Ext(f.name))
           content2 == [content EXCEPT ![activeTab] = text]
           frag == IF moduleHasCcall THEN sf ELSE NoText
           vert == IF moduleHasCcall THEN sv ELSE NoText
           content3 == [t \in Tabs |->
                           IF t = "frag" /\ frag # NoText THEN frag
                           ELSE IF t = "vert" /\ vert # NoText THEN vert
                           ELSE content2[t]]
           activeWritten == \/ activeTab = "frag" /\ frag # NoText
                            \/ activeTab = "vert" /\ vert # NoText
       IN  IF content2["frag"] = "dF" /\ content2["vert"] = "dV"
           THEN IF ext \in ModelExts /\ isModuleReady
                THEN /\ content' = content3
                     /\ IF activeWritten
                        THEN /\ nextTimerId <= MaxTimers
                             /\ text' = content3[activeTab]
                             /\ ChangeHandler(timers, updateTimeout)
                        ELSE UNCHANGED <<text, errorLines, timers, updateTimeout,
                                         nextTimerId, sinceChange, burstLen>>
                     /\ cmdsHistory' = IF Listened(SkyOn) THEN Append(cmdsHistory, SkyOn)
                                       ELSE cmdsHistory
                     /\ ccalls' = Ccall("command")
                     /\ UNCHANGED <<sent, consoleOut>>
                ELSE /\ content' = content2
                     /\ UNCHANGED <<text, errorLines, timers, updateTimeout, nextTimerId,
                                    sinceChange, burstLen, sent, bridgeVars, consoleOut>>
           ELSE \* ui.clearConsole(); setFrag(content.frag); setVert(content.vert)
                /\ content' = content2
                /\ consoleOut' = <<>>
                /\ sent' = SetShader(SetShader(sent, "frag", content2["frag"]),
                                     "vert", content2["vert"])
                /\ ccalls' = Ccall("setVert")
                /\ UNCHANGED <<text, errorLines, timers, updateTimeout, nextTimerId,
                               sinceChange, burstLen, cmdsHistory>>
    /\ editedSinceSync' = FALSE
    /\ drops' = [drops EXCEPT ![d].files[i].stage = "resolved"]
    /\ lastOp' = Op("dropAssetThen", "")
    /\ UNCHANGED <<activeTab, editorMode, cbCount, fullscreen, moduleState>>
    /\ UNCHANGED <<loaderVars, assetVars, pageUrl, loginBtnText, saveBtnDisplay, checkModule,
                   setupState>>

\* Promise.all(promises) of drop d is settled: every promise is fulfilled, or
\* one is rejected
DropSettled(d) ==
    \/ \A i \in 1..Len(drops[d].files) : drops[d].files[i].stage = "resolved"
    \/ \E i \in 1..Len(drops[d].files) : drops[d].files[i].stage = "rejected"

\* the callback of Promise.all(promises).finally: ui.hideLoader()
DropFinally(d) ==
    /\ d \in 1..Len(drops)
    /\ ~drops[d].finished
    /\ DropSettled(d)
    /\ LoaderHide
    /\ drops' = [drops EXCEPT ![d].finished = TRUE]
    /\ lastOp' = Op("dropFinally", "")
    /\ UNCHANGED <<editorVars, moduleVars, bridgeVars, assetVars, pageRest>>

----------------------------------------------------------------------------
(* GitHubIntegration: values *)

GistIds == {"a", "b"}

NoId == "noId"

NoToken == "noToken"

NoOwner == "noOwner"

\* no array at all (json.history undefined, localStorage key not set): a value
\* apart from every array of entries
Absent == <<[gistId |-> "absent", owner |-> "noOwner", tag |-> "absent"]>>

\* a history entry {gistId, owner, loadedAt | savedAt}; tag tells which code
\* wrote it: "doc" (found in a document), "load" (loadedAt), "save" (savedAt)
Entry(id, owner, tag) == [gistId |-> id, owner |-> owner, tag |-> tag]

\* a null element of a document's history array
NullEntry == [gistId |-> "null", owner |-> NoOwner, tag |-> "null"]

IsNull(e) == e.tag = "null"

\* data.owner / result.owner of a response: the gist's owner, or none
ResponseOwners == {"u2", NoOwner}

\* the entries documents embed: one per gist id (with and without an owner)
DocEntries == {Entry(id, IF id = "a" THEN "u1" ELSE NoOwner, "doc") : id \in GistIds}

\* history arrays with a null element, before and after a well-formed entry
MalformedHistories == {<<NullEntry>>, <<Entry("b", NoOwner, "doc"), NullEntry>>}

SeqsUpTo(S, n) == UNION {[1..k -> S] : k \in 0..n}

\* json.history of a parsed document: missing, or an array
DocHistories == {Absent} \cup SeqsUpTo(DocEntries, MaxDocHist) \cup MalformedHistories

\* the ways the first part of loadGist fails: the fetch is rejected, the status
\* is not 2xx, the gist holds no *.json file, the content does not parse
FetchFailures == {"reject", "notOk", "noJsonFile", "parseError"}

\* the ways the re-fetch of truncated content fails
RawFailures == {"reject", "parseError"}

----------------------------------------------------------------------------
(* GitHubIntegration: the JSON file of a gist *)

\* a member whose value is undefined
Undefined == "undefined"

PayloadKeys == {"frag", "vert", "commands", "assets"}

\* the payloads onSave builds: sources, retained commands, assets by name
Payloads ==
    {[frag |-> "x", vert |-> "dV", commands |-> <<"sphere,1", "fullscreen,on">>,
      assets |-> {<<"t.png", "data:image/png;base64,AA">>}],
     [frag |-> Undefined, vert |-> "x", commands |-> <<>>, assets |-> {}]}

\* the payload of a gist somebody else published
ForeignPayload == [frag |-> "dF", vert |-> "dV", commands |-> <<>>, assets |-> {}]

\* payload.history = this.gistHistory
WithHistory(pl, h) ==
    [k \in PayloadKeys \cup {"history"} |-> IF k = "history" THEN h ELSE pl[k]]

\* the members JSON.stringify writes: those whose value is not undefined
Defined(obj, k) ==
    IF k \in {"frag", "vert"} THEN obj[k] # Undefined
    ELSE IF k = "history" THEN obj[k] # Absent
    ELSE TRUE

\* mutant: a serialisation that leaves out the commands
StringifyNoCommands(obj) ==
    LET names == {k \in DOMAIN obj : Defined(obj, k)} \ {"commands"}
    IN  [names |-> names, at |-> [k \in names |-> obj[k]]]

\* JSON.stringify(payload, null, 2): the text lists the defined members in turn
Stringify(obj) ==
    LET names == {k \in DOMAIN obj : Defined(obj, k)}
    IN  [names |-> names, at |-> [k \in names |-> obj[k]]]

\* JSON.parse(jsonContent): an object with the members of the text
Parse(txt) == [k \in txt.names |-> txt.at[k]]

\* `json.history && Array.isArray(json.history)`, else no history
HistoryOf(json) == IF "history" \in DOMAIN json THEN json["history"] ELSE Absent

\* the members of the document callbacks.onSuccess reads (history is read by
\* loadGist itself)
PayloadOf(json) == [k \in DOMAIN json \cap PayloadKeys |-> json[k]]

\* no text yet
NoBody == [names |-> {}, at |-> <<>>]

\* no document yet
NoJson == <<>>

\* no gist published
NoGists == [i \in {} |-> NoBody]

\* the file a published gist holds; payload and embedded are history: the
\* payload saveGist was given and the history it embedded
Gist(txt, pl, h) == [content |-> txt, payload |-> pl, embedded |-> h]

----------------------------------------------------------------------------
(* GitHubIntegration: loadGist *)

\* the document GET /gists/{id} delivers: the file this session published
\* under id, else a foreign file embedding history h
DocumentOf(id, h) ==
    IF id \in DOMAIN remote
    THEN Parse(remote[id].content)
    ELSE Parse(Stringify(WithHistory(ForeignPayload, h)))

\* this.gistHistory.findIndex(h => h.gistId === id); 0 stands for -1
FindIndex(h, id) ==
    LET hits == {i \in 1..Len(h) : h[i].gistId = id}
    IN  IF hits = {} THEN 0 ELSE CHOOSE i \in hits : \A j \in hits : i <= j

\* findIndex reads h.gistId of every element up to the first hit: a null
\* element there raises a TypeError
FindIndexThrows(h, id) ==
    \E i \in 1..Len(h) :
        /\ IsNull(h[i])
        /\ FindIndex(h, id) = 0 \/ i < FindIndex(h, id)

\* mutant: the entry is always appended
PutEntryAppend(h, e) == Append(h, e)

\* `if (existingIndex >= 0) h[existingIndex] = e; else h.push(e)`
PutEntry(h, e) ==
    LET i == FindIndex(h, e.gistId)
    IN  IF i > 0 THEN [h EXCEPT ![i] = e] ELSE Append(h, e)

\* saveGistHistory(): localStorage.setItem('gist_history', JSON.stringify(h))
SaveGistHistory(h) == h

LoadRec(n, id, stage, owner, first, firstGistId, json) ==
    [n |-> n, id |-> id, stage |-> stage, owner |-> owner,
     first |-> first, firstGistId |-> firstGistId, json |-> json]

Bump(f, id) == [f EXCEPT ![id] = f[id] + 1]

saveSide == <<token, saves, nSaves, savedIds, remote, saveErrors>>

\* mutant: loadGist without the `this.currentGistId === id` guard
LoadGistNoGuard(id) ==
    /\ currentGistId' = id
    /\ onStarts' = Bump(onStarts, id)
    /\ fetches' = Bump(fetches, id)
    /\ nLoads' = nLoads + 1
    /\ loads' = loads \cup {LoadRec(nLoads + 1, id, "fetch", NoOwner, NoOwner, NoId, NoJson)}
    /\ lastStarted' = id
    /\ lastOp' = Op("loadGist", id)
    /\ UNCHANGED <<gistHistory, storedHistory, currentGistAuthors, onSuccesses, onErrors>>
    /\ UNCHANGED saveSide

\* mutant: a guard that ignores the call whenever a load of id is in flight or
\* has succeeded
LoadGistGuardAny(id) ==
    IF (\E p \in loads : p.id = id) \/ onSuccesses[id] > 0
    THEN /\ lastOp' = Op("loadGistIgnored", id)
         /\ UNCHANGED gistVars
    ELSE LoadGistNoGuard(id)

\* loadGist(id, callbacks) up to its first await
LoadGist(id) ==
    IF currentGistId = id
    THEN /\ lastOp' = Op("loadGistIgnored", id)
         /\ UNCHANGED gistVars
    ELSE /\ currentGistId' = id
         /\ onStarts' = Bump(onStarts, id)
         /\ fetches' = Bump(fetches, id)
         /\ nLoads' = nLoads + 1
         /\ loads' = loads \cup {LoadRec(nLoads + 1, id, "fetch", NoOwner, NoOwner, NoId, NoJson)}
         /\ lastStarted' = id
         /\ lastOp' = Op("loadGist", id)
         /\ UNCHANGED <<gistHistory, storedHistory, currentGistAuthors, onSuccesses,
                        onErrors>>
         /\ UNCHANGED saveSide

\* mutant: a catch block that forgets to reset this.currentGistId
LoadCatchNoReset(p, kind, h) ==
    /\ loads' = loads \ {p}
    /\ onErrors' = Bump(onErrors, p.id)
    /\ lastStarted' = NoId
    /\ lastOp' = OpDoc("loadFail", kind, h)
    /\ UNCHANGED <<currentGistId, storedHistory, currentGistAuthors, nLoads, fetches, onStarts,
                   onSuccesses>>
    /\ UNCHANGED <<token, nSaves, savedIds, remote, saveErrors>>

\* the catch block of loadGist
LoadCatch(p, kind, h) ==
    /\ loads' = loads \ {p}
    /\ currentGistId' = NoId
    /\ onErrors' = Bump(onErrors, p.id)
    /\ lastStarted' = NoId
    /\ lastOp' = OpDoc("loadFail", kind, h)
    /\ UNCHANGED <<storedHistory, currentGistAuthors, nLoads, fetches, onStarts,
                   onSuccesses>>
    /\ UNCHANGED <<token, nSaves, savedIds, remote, saveErrors>>

\* the gist fetch, its status check, response.json(), the search for the JSON
\* file or JSON.parse of inline content fails
LoadFetchFails(p, kind) ==
    /\ p \in loads
    /\ p.stage = "fetch"
    /\ kind \in FetchFailures
    /\ LoadCatch(p, kind, <<>>)
    /\ UNCHANGED <<gistHistory, saves>>

\* the JSON file is truncated: its raw_url is fetched
LoadTruncated(p, owner) ==
    /\ p \in loads
    /\ p.stage = "fetch"
    /\ loads' = (loads \ {p}) \cup {[p EXCEPT !.stage = "raw", !.owner = owner]}
    /\ lastOp' = Op("loadTruncated", p.id)
    /\ UNCHANGED <<currentGistId, gistHistory, storedHistory, currentGistAuthors, nLoads,
                   fetches, onStarts, onSuccesses, onErrors, lastStarted>>
    /\ UNCHANGED saveSide

\* the raw fetch is rejected or its text does not parse
LoadRawFails(p, kind) ==
    /\ p \in loads
    /\ p.stage = "raw"
    /\ kind \in RawFailures
    /\ LoadCatch(p, kind, <<>>)
    /\ UNCHANGED <<gistHistory, saves>>

\* updateAuthorInfo(); callbacks.onSuccess(json)
LoadSucceed(p) ==
    /\ loads' = loads \ {p}
    /\ onSuccesses' = Bump(onSuccesses, p.id)

\* this.gistHistory = newArray: no loop iterates the new array
Unalias(ss) == {[s EXCEPT !.aliased = FALSE] : s \in ss}

\* the document is parsed: lines 249-292 up to the next await
\* (owner: data.owner; h: json.history)
LoadApply(p, owner, h) ==
    /\ p \in loads
    /\ \/ p.stage = "fetch"
       \/ p.stage = "raw" /\ owner = p.owner
    /\ p.id \in DOMAIN remote => h = HistoryOf(Parse(remote[p.id].content))
    /\ LET json == PayloadOf(DocumentOf(p.id, h))
           base == IF h = Absent THEN <<>> ELSE h
           e == Entry(p.id, owner, "load")
           newHist == PutEntry(base, e)
           firstOwner == IF newHist[1].owner # NoOwner THEN newHist[1].owner ELSE owner
       IN  /\ saves' = Unalias(saves)
           /\ IF FindIndexThrows(base, p.id)
              THEN \* this.gistHistory is already replaced when findIndex throws
                   /\ gistHistory' = base
                   /\ LoadCatch(p, "badHistory", h)
              ELSE /\ gistHistory' = newHist
                   /\ storedHistory' = SaveGistHistory(newHist)
                   /\ UNCHANGED <<currentGistId, currentGistAuthors, nLoads, fetches, onStarts,
                                  onErrors, lastStarted>>
                   /\ UNCHANGED <<token, nSaves, savedIds, remote, saveErrors>>
                   /\ IF owner # NoOwner
                      THEN /\ loads' = (loads \ {p}) \cup
                                {LoadRec(p.n, p.id, "last", owner, firstOwner, newHist[1].gistId, json)}
                           /\ lastOp' = OpDoc("loadApply", p.id, h)
                           /\ UNCHANGED onSuccesses
                      ELSE IF firstOwner # NoOwner
                      THEN /\ loads' = (loads \ {p}) \cup
                                {LoadRec(p.n, p.id, "first", owner, firstOwner, newHist[1].gistId, json)}
                           /\ lastOp' = OpDoc("loadApply", p.id, h)
                           /\ UNCHANGED onSuccesses
                      ELSE /\ LoadSucceed(p)
                           /\ lastOp' = OpJson("loadApplyDone", p.id, h, json)

\* fetchGitHubUserInfo(lastOwner.login) returns info (NoOwner: null)
LoadLastAuthor(p, info) ==
    /\ p \in loads
    /\ p.stage = "last"
    /\ currentGistAuthors' = [currentGistAuthors EXCEPT !.last = info, !.lastGistId = p.id]
    /\ IF p.first # NoOwner
       THEN /\ loads' = (loads \ {p}) \cup {[p EXCEPT !.stage = "first"]}
            /\ lastOp' = Op("loadLastAuthor", p.id)
            /\ UNCHANGED onSuccesses
       ELSE /\ LoadSucceed(p)
            /\ lastOp' = OpJson("loadDone", p.id, <<>>, p.json)
    /\ UNCHANGED <<currentGistId, gistHistory, storedHistory, nLoads, fetches, onStarts,
                   onErrors, lastStarted>>
    /\ UNCHANGED saveSide

\* fetchGitHubUserInfo(firstOwner.login) returns info (NoOwner: null)
LoadFirstAuthor(p, info) ==
    /\ p \in loads
    /\ p.stage = "first"
    /\ currentGistAuthors' =
            [currentGistAuthors EXCEPT !.first = info, !.firstGistId = p.firstGistId]
    /\ LoadSucceed(p)
    /\ lastOp' = OpJson("loadDone", p.id, <<>>, p.json)
    /\ UNCHANGED <<currentGistId, gistHistory, storedHistory, nLoads, fetches, onStarts,
                   onErrors, lastStarted>>
    /\ UNCHANGED saveSide

\* what fetchGitHubUserInfo(login) can return
UserInfos(login) == {login, NoOwner}

----------------------------------------------------------------------------
(* GitHubIntegration: saveGist and pruneGistHistory *)

\* src: the array `for (const entry of this.gistHistory)` iterates; idx: the
\* next element; valid: validHistory, then the history the payload embeds; aliased: src is still the array object
\* this.gistHistory refers to, so that a push on it is seen by the loop;
\* before: history, the in-memory and the persisted array when saveGist was called
\* payload: the argument of saveGist; body: contentString, once it is built
SaveRec(n, stage, src, idx, valid, aliased, before, payload, body) ==
    [n |-> n, stage |-> stage, src |-> src, idx |-> idx, valid |-> valid,
     aliased |-> aliased, before |-> before, payload |-> payload, body |-> body]

loadSide == <<currentGistId, currentGistAuthors, loads, nLoads, fetches, onStarts,
              onSuccesses, onErrors, lastStarted>>

\* an element of this.gistHistory is set or pushed in place
MutateAliased(ss, h) == {IF s.aliased THEN [s EXCEPT !.src = h] ELSE s : s \in ss}

\* the ids the session has met; POST /gists returns none of them
SeenIds ==
    {id \in GistIds :
        \/ fetches[id] > 0
        \/ id \in savedIds
        \/ \E i \in 1..Len(gistHistory) : gistHistory[i].gistId = id
        \/ storedHistory # Absent /\ \E i \in 1..Len(storedHistory) : storedHistory[i].gistId = id
        \/ \E s \in saves :
                \E h \in {s.src, s.valid, s.before[1]} : \E i \in 1..Len(h) : h[i].gistId = id}

\* mutant: saveGist without the `if (!this.token)` check
SaveGistNoCheck(payload) ==
    /\ nSaves' = nSaves + 1
    /\ saves' = saves \cup
           {IF Len(gistHistory) = 0
            THEN SaveRec(nSaves + 1, "post", <<>>, 0, <<>>, FALSE,
                         <<gistHistory, storedHistory>>, payload,
                         Stringify(WithHistory(payload, gistHistory)))
            ELSE SaveRec(nSaves + 1, "prune", gistHistory, 1, <<>>, TRUE,
                         <<gistHistory, storedHistory>>, payload, NoBody)}
    /\ lastOp' = Op("saveGist", "")
    /\ UNCHANGED <<token, savedIds, remote, saveErrors, gistHistory, storedHistory>>
    /\ UNCHANGED loadSide

\* saveGist(payload, filename) up to its first await that waits for the network
SaveGist(payload) ==
    IF token = NoToken
    THEN /\ lastOp' = Op("saveNoToken", NoId)
         /\ UNCHANGED gistVars
    ELSE /\ nSaves' = nSaves + 1
         /\ saves' = saves \cup
                {IF Len(gistHistory) = 0
                 THEN SaveRec(nSaves + 1, "post", <<>>, 0, <<>>, FALSE,
                         <<gistHistory, storedHistory>>, payload,
                         Stringify(WithHistory(payload, gistHistory)))
                 ELSE SaveRec(nSaves + 1, "prune", gistHistory, 1, <<>>, TRUE,
                         <<gistHistory, storedHistory>>, payload, NoBody)}
         /\ lastOp' = Op("saveGist", "")
         /\ UNCHANGED <<token, savedIds, remote, saveErrors, gistHistory, storedHistory>>
         /\ UNCHANGED loadSide

\* mutant: pruneGistHistory that drops an entry when its check fails to
\* complete
PruneCheckDropsOnReject(s, outcome) ==
    /\ s \in saves
    /\ s.stage = "prune"
    /\ LET entry == s.src[s.idx]
           valid == IF outcome = "ok" THEN Append(s.valid, entry) ELSE s.valid
       IN  IF IsNull(entry)
           THEN /\ outcome = "reject"
                /\ saves' = saves \ {s}
                /\ saveErrors' = saveErrors + 1
                /\ lastOp' = Op("saveFail", "badHistory")
                /\ UNCHANGED <<gistHistory, storedHistory>>
           ELSE IF s.idx < Len(s.src)
           THEN /\ saves' = (saves \ {s}) \cup
                        {[s EXCEPT !.idx = s.idx + 1, !.valid = valid]}
                /\ lastOp' = Op("pruneCheck", outcome)
                /\ UNCHANGED <<gistHistory, storedHistory, saveErrors>>
           ELSE /\ gistHistory' = valid
                /\ storedHistory' = SaveGistHistory(valid)
                /\ saves' = Unalias(saves \ {s}) \cup
                        {SaveRec(s.n, "post", <<>>, 0, valid, FALSE, s.before, s.payload,
                                 Stringify(WithHistory(s.payload, valid)))}
                /\ lastOp' = Op("pruneDone", outcome)
                /\ UNCHANGED saveErrors
    /\ UNCHANGED <<token, nSaves, savedIds, remote>>
    /\ UNCHANGED loadSide

\* pruneGistHistory: the existence check of the next entry answers
\* (outcome: "ok" 2xx, "gone" non-2xx, "reject" the fetch itself failed)
PruneCheck(s, outcome) ==
    /\ s \in saves
    /\ s.stage = "prune"
    /\ LET entry == s.src[s.idx]
           valid == IF outcome = "gone" THEN s.valid ELSE Append(s.valid, entry)
       IN  IF IsNull(entry)
           THEN \* entry.gistId raises in the try and again in the catch's message
                /\ outcome = "reject"
                /\ saves' = saves \ {s}
                /\ saveErrors' = saveErrors + 1
                /\ lastOp' = Op("saveFail", "badHistory")
                /\ UNCHANGED <<gistHistory, storedHistory>>
           ELSE IF s.idx < Len(s.src)
           THEN /\ saves' = (saves \ {s}) \cup
                        {[s EXCEPT !.idx = s.idx + 1, !.valid = valid]}
                /\ lastOp' = Op("pruneCheck", outcome)
                /\ UNCHANGED <<gistHistory, storedHistory, saveErrors>>
           ELSE \* the loop ends: lines 188-189, then saveGist up to the POST
                /\ gistHistory' = valid
                /\ storedHistory' = SaveGistHistory(valid)
                /\ saves' = Unalias(saves \ {s}) \cup
                        {SaveRec(s.n, "post", <<>>, 0, valid, FALSE, s.before, s.payload,
                                 Stringify(WithHistory(s.payload, valid)))}
                /\ lastOp' = Op("pruneDone", outcome)
                /\ UNCHANGED saveErrors
    /\ UNCHANGED <<token, nSaves, savedIds, remote>>
    /\ UNCHANGED loadSide

\* the POST is rejected or answers a non-2xx status
SaveFails(s, kind) ==
    /\ s \in saves
    /\ s.stage = "post"
    /\ saves' = saves \ {s}
    /\ saveErrors' = saveErrors + 1
    /\ lastOp' = Op("saveFail", kind)
    /\ UNCHANGED <<token, nSaves, savedIds, remote, gistHistory, storedHistory>>
    /\ UNCHANGED loadSide

\* the POST answers 2xx with the new gist's id and owner
SaveSucceeds(s, id, owner) ==
    /\ s \in saves
    /\ s.stage = "post"
    /\ id \notin SeenIds
    /\ savedIds' = savedIds \cup {id}
    /\ remote' = [i \in DOMAIN remote \cup {id} |->
                    IF i = id THEN Gist(s.body, s.payload, s.valid) ELSE remote[i]]
    /\ IF FindIndexThrows(gistHistory, id)
       THEN /\ saves' = saves \ {s}
            /\ saveErrors' = saveErrors + 1
            /\ lastOp' = Op("saveFail", "badHistory")
            /\ UNCHANGED <<gistHistory, storedHistory>>
       ELSE LET h == PutEntry(gistHistory, Entry(id, owner, "save"))
            IN  /\ gistHistory' = h
                /\ storedHistory' = SaveGistHistory(h)
                /\ saves' = MutateAliased(saves \ {s}, h)
                /\ lastOp' = Op("saveDone", id)
                /\ UNCHANGED saveErrors
    /\ UNCHANGED <<token, nSaves>>
    /\ UNCHANGED loadSide

----------------------------------------------------------------------------
(* GitHubIntegration: the credential *)

NoUser == "noUser"

\* the logins GET /user can answer with
Logins == {"u1", "u2"}

\* what the user types into the token prompt; NoToken: cancelled or left empty
PromptAnswers == {NoToken, "tok", "tok2"}

\* the variables of the gist side checkToken, login and logout leave alone
authRest == <<currentGistId, gistHistory, storedHistory, currentGistAuthors, loads, saves,
              savedIds, remote, saveErrors, nLoads, nSaves, fetches, onStarts,
              onSuccesses, onErrors, lastStarted>>

\* a checkToken call suspended at `await fetch` (stage "fetch") or at
\* `await response.json()` (stage "json")
CheckRec(n, stage) == [n |-> n, stage |-> stage]

\* the state the last operation found: token, user, persisted token
Before == <<token, user, storedToken>>

\* mutant: a logout that leaves the persisted token in place
LogoutKeepsStored ==
    /\ token' = NoToken
    /\ user' = NoUser
    /\ UNCHANGED storedToken

\* logout()
Logout ==
    /\ token' = NoToken
    /\ user' = NoUser
    /\ storedToken' = NoToken

\* checkToken(), up to its first await
CheckToken ==
    /\ IF token # NoToken
       THEN /\ checks' = checks \cup {CheckRec(nChecks + 1, "fetch")}
            /\ nChecks' = nChecks + 1
            /\ lastOp' = Op("checkTokenFetch", "")
       ELSE /\ lastOp' = Op("checkTokenNoToken", "false")
            /\ UNCHANGED <<checks, nChecks>>
    /\ UNCHANGED <<token, user, storedToken>>
    /\ UNCHANGED authRest

\* the catch block of checkToken: warn, logout, return false
CheckCatch(c, why) ==
    /\ Logout
    /\ checks' = checks \ {c}
    /\ lastOp' = OpDoc(why, "false", Before)
    /\ UNCHANGED nChecks
    /\ UNCHANGED authRest

\* GET /user settles: 2xx ("ok"), another status ("notOk"), or the request
\* fails ("reject")
CheckResponse(c, outcome) ==
    /\ c \in checks
    /\ c.stage = "fetch"
    /\ CASE outcome = "ok" ->
                /\ checks' = (checks \ {c}) \cup {CheckRec(c.n, "json")}
                /\ lastOp' = Op("checkTokenOk", "")
                /\ UNCHANGED <<token, user, storedToken, nChecks>>
                /\ UNCHANGED authRest
         [] outcome = "notOk" -> CheckCatch(c, "checkTokenInvalid")
         [] outcome = "reject" -> CheckCatch(c, "checkTokenRejected")

\* response.json() settles: the profile with its login, or the body cannot be
\* read ("reject")
CheckJson(c, login) ==
    /\ c \in checks
    /\ c.stage = "json"
    /\ IF login \in Logins
       THEN /\ user' = login
            /\ checks' = checks \ {c}
            /\ lastOp' = OpDoc("checkTokenDone", "true", Before)
            /\ UNCHANGED <<token, storedToken, nChecks>>
            /\ UNCHANGED authRest
       ELSE CheckCatch(c, "checkTokenBadBody")

\* login(): a logout when a user is resolved, else the prompt, and a
\* checkToken call that is not awaited
Login(answer) ==
    IF user # NoUser
    THEN /\ Logout
         /\ lastOp' = Op("loginLogout", "false")
         /\ UNCHANGED <<checks, nChecks>>
         /\ UNCHANGED authRest
    ELSE IF answer # NoToken
    THEN /\ token' = answer
         /\ storedToken' = answer
         /\ checks' = checks \cup {CheckRec(nChecks + 1, "fetch")}
         /\ nChecks' = nChecks + 1
         /\ lastOp' = Op("login", "true")
         /\ UNCHANGED user
         /\ UNCHANGED authRest
    ELSE /\ lastOp' = Op("loginCancelled", "false")
         /\ UNCHANGED <<token, user, storedToken, checks, nChecks>>
         /\ UNCHANGED authRest

----------------------------------------------------------------------------
(* The page: the GitHub buttons *)

\* 'Log out (' + github.getUser() + ')'
LogoutText(u) == <<"Log out (", u, ")">>

LoginText == <<"Login">>

\* the text of a null in a string concatenation
NullText == "null"

\* a line ui.logToConsole appends
Line(t, isError) == [text |-> t, isError |-> isError]

\* updateUI() when github.user is u
UpdateUI(u) ==
    /\ loginBtnText' = IF u # NoUser THEN LogoutText(u) ELSE LoginText
    /\ saveBtnDisplay' = IF u # NoUser THEN "block" ELSE "none"

\* what the buttons' handlers leave alone of the page
buttonsRest == <<drops, checkModule>>

\* setupGitHubButtons: the listeners are installed and
\* github.checkToken().then(updateUI) runs up to the first await of checkToken
\* (without a token checkToken returns at once and updateUI follows)
SetupGitHubButtons ==
    /\ setupState = "no"
    /\ CheckToken
    /\ IF token # NoToken
       THEN /\ setupState' = "checking"
            /\ UNCHANGED <<loginBtnText, saveBtnDisplay>>
       ELSE /\ setupState' = "done"
            /\ UpdateUI(user)
    /\ UNCHANGED <<buttonsRest, consoleOut, pageUrl>>

\* the promise of the checkToken call c settles: updateUI runs if it is the
\* call setupGitHubButtons chained it to
ThenUpdateUI(c) ==
    IF setupState = "checking" /\ c.n = 1 /\ c \notin checks' /\ (\A k \in checks' : k.n # c.n)
    THEN /\ UpdateUI(user')
         /\ setupState' = "done"
    ELSE UNCHANGED <<loginBtnText, saveBtnDisplay, setupState>>

PageCheckResponse(c, outcome) ==
    /\ CheckResponse(c, outcome)
    /\ ThenUpdateUI(c)
    /\ UNCHANGED <<buttonsRest, consoleOut, pageUrl>>

PageCheckJson(c, login) ==
    /\ CheckJson(c, login)
    /\ ThenUpdateUI(c)
    /\ UNCHANGED <<buttonsRest, consoleOut, pageUrl>>

\* a click on the login button: github.login(); updateUI()
LoginClick(answer) ==
    /\ setupState # "no"
    /\ Login(answer)
    /\ UpdateUI(user')
    /\ UNCHANGED <<buttonsRest, consoleOut, pageUrl, setupState>>

\* the lines of onSave after `await github.saveGist(...)` returned id
Saved(id) ==
    /\ consoleOut' = Append(consoleOut, Line(<<"Saved to Gist: ", id>>, FALSE))
    /\ pageUrl' = id

\* the catch block of onSave
SaveThrew(message) ==
    /\ consoleOut' = Append(consoleOut, Line(<<message>>, TRUE))
    /\ UNCHANGED pageUrl

\* a click on the save button: onSave up to the first await of saveGist that
\* waits for the network (name: the answer to the prompt, "" when cancelled;
\* answers: what the module answers to getRetainedState)
SaveClick(name, answers) ==
    /\ setupState # "no"
    /\ saveBtnDisplay = "block"
    /\ IF name = ""
       THEN /\ lastOp' = Op("saveCancelled", "")
            /\ UNCHANGED <<gistVars, content, editedSinceSync, ccalls, consoleOut, pageUrl>>
       ELSE LET content2 == [content EXCEPT ![activeTab] = text]
                payload ==
                    [frag |-> content2["frag"], vert |-> content2["vert"],
                     commands |-> RetainedState(cmdsHistory, answers)
                                  \o (IF fullscreen
                                      THEN <<FullscreenPrefix \o <<"o", "n">> >> ELSE <<>>),
                     assets |-> {<<e.name, e.url>> : e \in Range(externalAssets)}]
            IN  /\ content' = content2
                /\ editedSinceSync' = FALSE
                /\ ccalls' = Ccall("query")
                /\ SaveGist(payload)
                /\ IF token = NoToken
                   THEN Saved(NullText)
                   ELSE UNCHANGED <<consoleOut, pageUrl>>
    /\ UNCHANGED <<activeTab, text, editorMode, errorLines, updateTimeout, timers,
                   nextTimerId, sinceChange, cbCount, burstLen, fullscreen>>
    /\ UNCHANGED <<cmdsHistory, moduleVars, buttonsRest, loginBtnText, saveBtnDisplay,
                   setupState>>

\* onSave resumes when the saveGist call s has ended with lastOp'
SaveResumes ==
    CASE lastOp'.op = "saveDone" -> Saved(lastOp'.arg)
      [] lastOp'.op = "saveFail" -> SaveThrew(lastOp'.arg)
      [] OTHER -> UNCHANGED <<consoleOut, pageUrl>>

PagePruneCheck(s, outcome) ==
    /\ PruneCheck(s, outcome)
    /\ SaveResumes
    /\ UNCHANGED <<buttonsRest, loginBtnText, saveBtnDisplay, setupState>>

PageSaveFails(s, kind) ==
    /\ SaveFails(s, kind)
    /\ SaveResumes
    /\ UNCHANGED <<buttonsRest, loginBtnText, saveBtnDisplay, setupState>>

PageSaveSucceeds(s, id, owner) ==
    /\ SaveSucceeds(s, id, owner)
    /\ SaveResumes
    /\ UNCHANGED <<buttonsRest, loginBtnText, saveBtnDisplay, setupState>>

InitGistIdle ==
    /\ currentGistId = NoId
    /\ currentGistAuthors =
            [first |-> NoOwner, firstGistId |-> NoId, last |-> NoOwner, lastGistId |-> NoId]
    /\ loads = {}
    /\ saves = {}
    /\ savedIds = {}
    /\ remote = NoGists
    /\ saveErrors = 0
    /\ nLoads = 0
    /\ nSaves = 0
    /\ fetches = [id \in GistIds |-> 0]
    /\ onStarts = [id \in GistIds |-> 0]
    /\ onSuccesses = [id \in GistIds |-> 0]
    /\ onErrors = [id \in GistIds |-> 0]
    /\ lastStarted = NoId
    /\ user = NoUser
    /\ storedToken = token
    /\ checks = {}
    /\ nChecks = 0

\* what an earlier session may have left in localStorage
StoredHistories == {Absent, <<Entry("a", "u1", "load")>>}

\* the constructor: token and history come from localStorage
InitGist ==
    /\ token \in {NoToken, "tok"}
    /\ storedHistory \in StoredHistories
    /\ gistHistory = IF storedHistory = Absent THEN <<>> ELSE storedHistory
    /\ InitGistIdle

\* a first visit: localStorage is empty
InitGistFresh ==
    /\ token = NoToken
    /\ storedHistory = Absent
    /\ gistHistory = <<>>
    /\ InitGistIdle

\* the page right after the DOMContentLoaded handler: nothing dropped or
\* logged yet, the buttons as the markup has them, checkModule running
InitPage ==
    /\ drops = <<>>
    /\ consoleOut = <<>>
    /\ pageUrl = NoId
    /\ loginBtnText = <<InitialMarkup>>
    /\ saveBtnDisplay = InitialMarkup
    /\ checkModule = "running"
    /\ setupState = "no"

----------------------------------------------------------------------------
(* The page: start-up and the load of ?gist= *)

\* ui.hideLoader() and, right after it, loadGist's onStart: ui.showLoader(msg)
LoaderHideThenShow(msg) ==
    LET c == loaderCount - 1
        reset == loaderPresent /\ c <= 0
        c1 == IF reset THEN 0 ELSE c
    IN  /\ loaderCount' = c1 + 1
        /\ loaderVisible' = IF loaderPresent /\ c1 + 1 > 0 THEN TRUE
                            ELSE IF reset THEN FALSE ELSE loaderVisible
        /\ loaderText' = IF msg # "" /\ loaderPresent THEN msg
                         ELSE IF reset THEN DefaultLoaderText ELSE loaderText
        /\ nClamped' = IF reset /\ c < 0 THEN nClamped + 1 ELSE nClamped
        /\ nHide' = nHide + 1
        /\ nShow' = nShow + 1
        /\ UNCHANGED loaderPresent

\* the tick of the checkModule interval that finds the module ready (the
\* ticks before it do nothing)
CheckModuleTick ==
    /\ checkModule = "running"
    /\ isModuleReady
    /\ checkModule' = "cleared"
    /\ IF pageUrl # NoId
       THEN /\ LoadGist(pageUrl)
            /\ LoaderHideThenShow("Loading Gist...")
            /\ UNCHANGED <<moduleVars, bridgeVars>>
       ELSE /\ LoaderHide
            /\ sent' = UpdateShader(sent)
            /\ ccalls' = Ccall(IF activeTab = "frag" THEN "setFrag" ELSE "setVert")
            /\ lastOp' = Op("checkModule", "")
            /\ UNCHANGED <<moduleState, cmdsHistory, gistVars>>
    /\ UNCHANGED <<editorVars, assetVars, authVars, drops, consoleOut, pageUrl, loginBtnText,
                   saveBtnDisplay, setupState>>

\* onError(error.message): the message is logged, the loader hidden
OnError(message) ==
    /\ consoleOut' = Append(consoleOut, Line(<<"Error loading Gist: ", message>>, TRUE))
    /\ LoaderHide

\* the callbacks the page gave loadGist, for the step of the load just taken
\* (doc: the sources, assets and commands of the parsed document)
LoadCallbacks(doc, outs) ==
    /\ CASE lastOp'.op = "loadFail" ->
                /\ OnError(lastOp'.arg)
                /\ UNCHANGED <<editorVars, moduleVars, bridgeVars, assetVars>>
         [] lastOp'.op = "loadTruncated" ->
                /\ loaderText' = IF loaderPresent THEN "Fetching raw Gist content..."
                                 ELSE loaderText
                /\ UNCHANGED <<loaderPresent, loaderCount, loaderVisible, nShow, nHide, nClamped>>
                /\ UNCHANGED <<editorVars, moduleVars, bridgeVars, assetVars, consoleOut>>
         [] lastOp'.op \in {"loadDone", "loadApplyDone"} ->
                /\ OnSuccessStart(doc, outs)
                /\ UNCHANGED consoleOut
         [] OTHER ->
                UNCHANGED <<loaderVars, editorVars, moduleVars, bridgeVars, assetVars, consoleOut>>
    /\ UNCHANGED <<authVars, drops, pageUrl, loginBtnText, saveBtnDisplay, checkModule,
                   setupState>>

PageLoadFetchFails(p, kind) == LoadFetchFails(p, kind) /\ LoadCallbacks(NoDocument, <<>>)

PageLoadTruncated(p, owner) == LoadTruncated(p, owner) /\ LoadCallbacks(NoDocument, <<>>)

PageLoadRawFails(p, kind) == LoadRawFails(p, kind) /\ LoadCallbacks(NoDocument, <<>>)

\* (doc, outs: the document onSuccess is called with when the step ends the
\* load, and how the writes of its data URL assets end)
PageLoadApply(p, owner, h, doc, outs) == LoadApply(p, owner, h) /\ LoadCallbacks(doc, outs)

PageLoadLastAuthor(p, info, doc, outs) == LoadLastAuthor(p, info) /\ LoadCallbacks(doc, outs)

PageLoadFirstAuthor(p, info, doc, outs) == LoadFirstAuthor(p, info) /\ LoadCallbacks(doc, outs)

----------------------------------------------------------------------------
(* Specifications *)

vars == <<loaderVars, editorVars, moduleVars, bridgeVars, assetVars, gistVars, authVars, pageVars, lastOp>>

\* the loader's class list comes from the page; the constructor leaves it alone
InitLoaderDom ==
    /\ loaderPresent \in BOOLEAN
    /\ loaderVisible \in (IF loaderPresent THEN BOOLEAN ELSE {FALSE})

Init ==
    /\ InitLoaderDom
    /\ InitLoader
    /\ InitEditor
    /\ InitModule
    /\ InitGistFresh
    /\ InitPage
    /\ lastOp = Op("init", "")

LoaderNext ==
    /\ \/ \E msg \in LoaderTexts : ShowLoader(msg)
       \/ HideLoader
       \/ \E msg \in LoaderTexts : UpdateLoader(msg)
    /\ UNCHANGED <<editorVars, moduleVars, bridgeVars, assetVars, gistVars, authVars, pageVars>>

SpecLoader == Init /\ [][LoaderNext]_vars

EditorNext ==
    /\ \/ \E v \in Texts : UserEdit(v)
       \/ \E v \in Texts : SetValue(v)
       \/ \E type \in Tabs, v \in Texts : SetContent(type, v)
       \/ GetAllContent
       \/ \E t \in timers : TimerFire(t)
       \/ \E type \in Tabs : TabClick(type)
       \/ \E d \in TickSteps : Tick(d)
       \/ ResizeClick
       \/ ModuleAppears /\ UNCHANGED editorVars
    /\ UNCHANGED <<loaderVars, bridgeVars, assetVars, gistVars, authVars, pageVars>>

SpecEditor == Init /\ [][EditorNext]_vars

\* error events between edits and tab clicks
ErrorsNext ==
    /\ \/ \E e \in ErrorTexts : ErrorEvent(e)
       \/ \E v \in Texts : UserEdit(v)
       \/ \E type \in Tabs : TabClick(type)
       \/ \E t \in timers : TimerFire(t)
       \/ \E d \in TickSteps : Tick(d)
    /\ UNCHANGED <<loaderVars, bridgeVars, assetVars, gistVars, authVars, pageVars>>

SpecErrors == Init /\ [][ErrorsNext]_vars

\* the page once checkModule has found the module ready and has called
\* updateShader(): the module holds the default fragment source
InitSync ==
    /\ loaderPresent = TRUE
    /\ loaderVisible = FALSE
    /\ InitLoader
    /\ InitEditor
    /\ moduleHasCcall = TRUE
    /\ moduleHandle = TRUE
    /\ moduleLoaded = TRUE
    /\ moduleHasFS = TRUE
    /\ externalAssets = <<>>
    /\ assets = <<>>
    /\ batch = "idle"
    /\ applying = [pos |-> "idle", json |-> NoDocument]
    /\ applied = <<>>
    /\ cmdsHistory = <<>>
    /\ ccalls = {}
    /\ sent = [t \in Tabs |-> IF t = "frag" THEN "dF" ELSE NoText]
    /\ InitGistFresh
    /\ InitPage
    /\ lastOp = Op("init", "")

\* the user edits and clicks tabs; the debounce timers run
SyncNext ==
    /\ \/ \E v \in Texts : UserEdit(v)
       \/ \E type \in Tabs : TabClick(type)
       \/ \E t \in timers : TimerFire(t)
       \/ \E d \in TickSteps : Tick(d)
    /\ UNCHANGED <<loaderVars, bridgeVars, assetVars, gistVars, authVars, pageVars>>

SpecSync == InitSync /\ [][SyncNext]_vars

\* files dropped on the page once the module holds the default fragment
\* source; the debounce timers run, the user does nothing else
DropNext ==
    /\ \/ \E fs \in DropLists : Len(drops) < MaxDrops /\ DropFiles(fs)
       \/ \E d \in 1..MaxDrops, i \in 1..MaxDropFiles, res \in {"load", "error"},
             out \in Outcomes : ReadSettles(d, i, res, out)
       \/ \E d \in 1..MaxDrops, i \in 1..MaxDropFiles, sf \in BackendTexts,
             sv \in BackendTexts : DropAssetThen(d, i, sf, sv)
       \/ \E d \in 1..MaxDrops : DropFinally(d)
       \/ /\ \/ \E t \in timers : TimerFire(t)
             \/ \E dt \in TickSteps : Tick(dt)
          /\ UNCHANGED <<loaderVars, bridgeVars, assetVars, pageVars>>
    /\ UNCHANGED <<gistVars, authVars>>

SpecDrop == InitSync /\ [][DropNext]_vars

\* the page when loadGist calls onSuccess: the module is ready, the loader
\* shows 'Loading Gist...'
InitApply ==
    /\ loaderPresent = TRUE
    /\ loaderVisible = TRUE
    /\ loaderCount = 1
    /\ loaderText = "Loading Gist..."
    /\ nShow = 1
    /\ nHide = 0
    /\ nClamped = 0
    /\ InitEditor
    /\ moduleHasCcall = TRUE
    /\ moduleHandle = TRUE
    /\ moduleLoaded = TRUE
    /\ moduleHasFS \in BOOLEAN
    /\ externalAssets = <<>>
    /\ assets = <<>>
    /\ batch = "idle"
    /\ applying = [pos |-> "idle", json |-> NoDocument]
    /\ applied = <<>>
    /\ cmdsHistory = <<>>
    /\ ccalls = {}
    /\ sent = [t \in Tabs |-> NoText]
    /\ InitGistFresh
    /\ InitPage
    /\ lastOp = Op("init", "")

\* one onSuccess call and the asset pipelines it waits for
ApplyNext ==
    /\ \/ /\ applying.pos = "idle"
          /\ \E json \in Documents : \E outs \in [1..Len(json.assets) -> Outcomes] :
                OnSuccess(json, outs)
       \/ OnSuccessResume
       \/ /\ \/ \E i \in 1..MaxAssets, res \in {"ok", "notOk", "reject"} : DownloadSettles(i, res)
             \/ \E i \in 1..MaxAssets, res \in {"ok", "reject"}, out \in Outcomes :
                  BodySettles(i, res, out)
             \/ AssetTick
             \/ \E i \in 1..MaxAssets, out \in Outcomes : TryWriteStep(i, out)
             \/ BatchSettles
          /\ UNCHANGED <<editorVars, applyVars>>
    /\ UNCHANGED <<gistVars, authVars, pageVars>>

SpecApply == InitApply /\ [][ApplyNext]_vars

\* loadGist alone, on a first visit: the re-entrancy guard and the failure paths
InitGistLoad ==
    /\ loaderPresent = TRUE
    /\ loaderVisible = FALSE
    /\ InitLoader
    /\ InitEditor
    /\ InitModule
    /\ InitGistFresh
    /\ InitPage
    /\ lastOp = Op("init", "")

\* the documents of SpecGistLoad: no history, a well-formed one, a malformed one
LoadDocHistories == {Absent, <<Entry("b", NoOwner, "doc")>>, <<NullEntry>>}

\* (the profile lookups answer here; SpecGistHistory has them fail as well)
GistLoadNext ==
    /\ \/ \E id \in GistIds : nLoads < MaxLoads /\ LoadGist(id)
       \/ \E p \in loads, kind \in FetchFailures : LoadFetchFails(p, kind)
       \/ \E p \in loads, owner \in ResponseOwners : LoadTruncated(p, owner)
       \/ \E p \in loads, kind \in RawFailures : LoadRawFails(p, kind)
       \/ \E p \in loads, owner \in ResponseOwners, h \in LoadDocHistories :
                LoadApply(p, owner, h)
       \/ \E p \in loads : LoadLastAuthor(p, p.owner)
       \/ \E p \in loads : LoadFirstAuthor(p, p.first)
    /\ UNCHANGED <<loaderVars, editorVars, moduleVars, bridgeVars, assetVars, authVars, pageVars>>

SpecGistLoad == InitGistLoad /\ [][GistLoadNext]_vars

\* the page right after the DOMContentLoaded handler, with or without ?gist=
\* in its address: the loader shows 'Loading...', the module is not there yet
InitPageLoad ==
    /\ loaderPresent = TRUE
    /\ loaderVisible = TRUE
    /\ loaderCount = 1
    /\ loaderText = DefaultLoaderText
    /\ nShow = 1
    /\ nHide = 0
    /\ nClamped = 0
    /\ InitEditor
    /\ InitModule
    /\ InitGistFresh
    /\ drops = <<>>
    /\ consoleOut = <<>>
    /\ pageUrl \in {NoId, "a"}
    /\ loginBtnText = <<InitialMarkup>>
    /\ saveBtnDisplay = InitialMarkup
    /\ checkModule = "running"
    /\ setupState = "no"
    /\ lastOp = Op("init", "")

\* the documents the gist of the address holds: a fragment source, with or
\* without a remote asset, without commands or with a command that is not a
\* string after one that is
PageDocuments ==
    {[frag |-> f, vert |-> "", hasAssets |-> a.has, assets |-> a.map, commands |-> c] :
        f \in {"x"},
        a \in {[has |-> FALSE, map |-> <<>>], [has |-> TRUE, map |-> <<AssetPool[2]>>]},
        c \in {<<>>, <<<<"f", "u", "l", "l", "s", "c", "r", "e", "e", "n", ",", "o", "n">>, NotAString>>}}

\* the files dropped in SpecPage: a shader, an asset
PageDropLists == {<<1>>, <<3>>}

\* the page from its start to rest: the module comes up, checkModule finds it
\* ready and loads the gist of the address, files are dropped
PageNext ==
    \/ /\ ModuleDefined \/ CcallAttached \/ FSAttached \/ ModuleLoaded
       /\ UNCHANGED <<loaderVars, editorVars, assetVars, gistVars, authVars, pageVars>>
    \/ CheckModuleTick
    \/ \E p \in loads, kind \in FetchFailures : PageLoadFetchFails(p, kind)
    \/ \E p \in loads, owner \in ResponseOwners : PageLoadTruncated(p, owner)
    \/ \E p \in loads, kind \in RawFailures : PageLoadRawFails(p, kind)
    \/ \E p \in loads, owner \in ResponseOwners, h \in LoadDocHistories, doc \in PageDocuments :
            \E outs \in [1..Len(doc.assets) -> Outcomes] : PageLoadApply(p, owner, h, doc, outs)
    \/ \E p \in loads, doc \in PageDocuments : \E outs \in [1..Len(doc.assets) -> Outcomes] :
            PageLoadLastAuthor(p, p.owner, doc, outs)
    \/ \E p \in loads, doc \in PageDocuments : \E outs \in [1..Len(doc.assets) -> Outcomes] :
            PageLoadFirstAuthor(p, p.first, doc, outs)
    \/ OnSuccessResume /\ UNCHANGED <<gistVars, authVars, pageVars>>
    \/ /\ \/ \E i \in 1..MaxAssets, res \in {"ok", "notOk", "reject"} : DownloadSettles(i, res)
          \/ \E i \in 1..MaxAssets, res \in {"ok", "reject"}, out \in Outcomes :
                BodySettles(i, res, out)
          \/ AssetTick
          \/ \E i \in 1..MaxAssets, out \in Outcomes : TryWriteStep(i, out)
          \/ BatchSettles
       /\ UNCHANGED <<editorVars, applyVars, gistVars, authVars, pageVars>>
    \/ /\ \/ \E fs \in PageDropLists : Len(drops) < MaxDrops /\ DropFiles(fs)
          \/ \E d \in 1..MaxDrops, i \in 1..MaxDropFiles, res \in {"load", "error"} :
                ReadSettles(d, i, res, "ok")
          \/ \E d \in 1..MaxDrops, i \in 1..MaxDropFiles : DropAssetThen(d, i, "x", "x")
          \/ \E d \in 1..MaxDrops : DropFinally(d)
       /\ UNCHANGED <<gistVars, authVars>>

SpecPage == InitPageLoad /\ [][PageNext]_vars

\* loadGist with every document history, after any earlier session, and
\* saveGist without a credential: the derivation history
InitGistHistory ==
    /\ loaderPresent = TRUE
    /\ loaderVisible = FALSE
    /\ InitLoader
    /\ InitEditor
    /\ InitModule
    /\ token = NoToken
    /\ storedHistory \in StoredHistories
    /\ gistHistory = IF storedHistory = Absent THEN <<>> ELSE storedHistory
    /\ InitGistIdle
    /\ InitPage
    /\ lastOp = Op("init", "")

GistHistoryNext ==
    /\ \/ \E id \in GistIds : nLoads < MaxHistLoads /\ LoadGist(id)
       \/ \E p \in loads, kind \in FetchFailures : LoadFetchFails(p, kind)
       \/ \E p \in loads, owner \in ResponseOwners : LoadTruncated(p, owner)
       \/ \E p \in loads, kind \in RawFailures : LoadRawFails(p, kind)
       \/ \E p \in loads, owner \in ResponseOwners, h \in DocHistories : LoadApply(p, owner, h)
       \/ \E p \in loads : \E info \in UserInfos(p.owner) : LoadLastAuthor(p, info)
       \/ \E p \in loads : \E info \in UserInfos(p.first) : LoadFirstAuthor(p, info)
       \/ \E payload \in Payloads : SaveGist(payload)
    /\ UNCHANGED <<loaderVars, editorVars, moduleVars, bridgeVars, assetVars, authVars, pageVars>>

SpecGistHistory == InitGistHistory /\ [][GistHistoryNext]_vars

\* saveGist with a credential, next to loadGist: pruning, publishing, the
\* derivation history
InitGistSave ==
    /\ loaderPresent = TRUE
    /\ loaderVisible = FALSE
    /\ InitLoader
    /\ InitEditor
    /\ InitModule
    /\ InitGist
    /\ token # NoToken
    /\ InitPage
    /\ lastOp = Op("init", "")

\* the documents of SpecGistSave: no history, well-formed ones with one and two
\* ids, one with a repeated id, a malformed one
SaveDocHistories ==
    {Absent,
     <<Entry("b", NoOwner, "doc")>>,
     <<Entry("a", "u1", "doc"), Entry("b", NoOwner, "doc")>>,
     <<Entry("b", NoOwner, "doc"), Entry("b", NoOwner, "doc")>>,
     <<NullEntry>>}

\* the histories a document fetched under id can embed
DocumentsOf(id, foreign) ==
    IF id \in DOMAIN remote THEN {HistoryOf(Parse(remote[id].content))} ELSE foreign

\* (the profile lookups answer here; SpecGistHistory has them fail as well)
GistSaveNext ==
    /\ \/ \E id \in GistIds : nLoads + nSaves < MaxSaveOps /\ LoadGist(id)
       \/ \E p \in loads, kind \in FetchFailures : LoadFetchFails(p, kind)
       \/ \E p \in loads, owner \in ResponseOwners : LoadTruncated(p, owner)
       \/ \E p \in loads, kind \in RawFailures : LoadRawFails(p, kind)
       \/ \E p \in loads, owner \in ResponseOwners :
            \E h \in DocumentsOf(p.id, SaveDocHistories) : LoadApply(p, owner, h)
       \/ \E p \in loads : LoadLastAuthor(p, p.owner)
       \/ \E p \in loads : LoadFirstAuthor(p, p.first)
       \/ \E payload \in Payloads : nLoads + nSaves < MaxSaveOps /\ SaveGist(payload)
       \/ \E s \in saves, outcome \in {"ok", "gone", "reject"} : PruneCheck(s, outcome)
       \/ \E s \in saves, kind \in {"reject", "notOk"} : SaveFails(s, kind)
       \/ \E s \in saves, id \in GistIds, owner \in ResponseOwners : SaveSucceeds(s, id, owner)
    /\ UNCHANGED <<loaderVars, editorVars, moduleVars, bridgeVars, assetVars, authVars, pageVars>>

SpecGistSave == InitGistSave /\ [][GistSaveNext]_vars

\* the credential: checkToken, login and logout, after any earlier session
InitAuth ==
    /\ loaderPresent = TRUE
    /\ loaderVisible = FALSE
    /\ InitLoader
    /\ InitEditor
    /\ InitModule
    /\ InitGist
    /\ InitPage
    /\ lastOp = Op("init", "")

AuthNext ==
    /\ \/ nChecks < MaxChecks /\ CheckToken
       \/ \E c \in checks, outcome \in {"ok", "notOk", "reject"} : CheckResponse(c, outcome)
       \/ \E c \in checks, login \in Logins \cup {"reject"} : CheckJson(c, login)
       \/ \E answer \in PromptAnswers : nChecks < MaxChecks /\ Login(answer)
    /\ UNCHANGED <<loaderVars, editorVars, moduleVars, bridgeVars, assetVars, pageVars>>

SpecAuth == InitAuth /\ [][AuthNext]_vars

\* the GitHub buttons of the page, after any earlier session: the token
\* validation started at page load, login and logout clicks, saves
SessionNext ==
    /\ \/ SetupGitHubButtons /\ UNCHANGED <<editorVars, moduleVars, bridgeVars>>
       \/ /\ \E answer \in PromptAnswers : nChecks < MaxChecks /\ LoginClick(answer)
          /\ UNCHANGED <<editorVars, moduleVars, bridgeVars>>
       \/ /\ \/ \E c \in checks, outcome \in {"ok", "notOk", "reject"} :
                    PageCheckResponse(c, outcome)
             \/ \E c \in checks, login \in Logins \cup {"reject"} : PageCheckJson(c, login)
          /\ UNCHANGED <<editorVars, moduleVars, bridgeVars>>
       \/ /\ Len(consoleOut) < MaxLines
          /\ nSaves < MaxSessionSaves
          /\ \E name \in {"", "shader"}, answers \in AnswerMaps : SaveClick(name, answers)
          /\ UNCHANGED authVars
       \/ /\ \/ \E s \in saves, outcome \in {"ok", "gone", "reject"} : PagePruneCheck(s, outcome)
             \/ \E s \in saves, kind \in {"reject", "notOk"} : PageSaveFails(s, kind)
             \/ \E s \in saves, id \in GistIds, owner \in ResponseOwners :
                    PageSaveSucceeds(s, id, owner)
          /\ UNCHANGED <<editorVars, moduleVars, bridgeVars, authVars>>
    /\ UNCHANGED <<loaderVars, assetVars>>

SpecSession == InitAuth /\ [][SessionNext]_vars

\* the bridge, from the construction of GlslViewerIntegration, with the module
\* arriving at any time
BridgeNext ==
    /\ \/ \E cmd \in CommandTexts, threw \in BOOLEAN :
            Len(cmdsHistory) < MaxCmds /\ SendCommand(cmd, threw)
       \/ \E answer \in AnswerTexts \cup {NullAnswer, <<>>} : Query(answer)
       \/ \E answers \in AnswerMaps : GetRetainedState(answers)
       \/ \E tab \in Tabs : SetSource(tab, "x")
       \/ \E tab \in Tabs, threw \in BOOLEAN : GetDefaultScene(tab, threw)
       \/ ModuleDefined
       \/ CcallAttached
       \/ ModuleLoaded
       \/ ModuleAppears /\ UNCHANGED bridgeVars
    /\ UNCHANGED <<loaderVars, editorVars, assetVars, gistVars, authVars, pageVars>>

SpecBridge == Init /\ [][BridgeNext]_vars

\* one loadAssetsFromGist call while the module comes up
AssetsNext ==
    /\ \/ \E b \in AssetMappings : \E outs \in [1..Len(b) -> Outcomes] :
            LoadAssetsFromGist(b, outs)
       \/ \E i \in 1..MaxAssets, res \in {"ok", "notOk", "reject"} : DownloadSettles(i, res)
       \/ \E i \in 1..MaxAssets, res \in {"ok", "reject"}, out \in Outcomes :
            BodySettles(i, res, out)
       \/ AssetTick
       \/ \E i \in 1..MaxAssets, out \in Outcomes : TryWriteStep(i, out)
       \/ BatchSettles
       \/ (ModuleDefined \/ CcallAttached \/ FSAttached \/ ModuleLoaded)
            /\ UNCHANGED <<loaderVars, assetVars>>
    /\ UNCHANGED <<editorVars, applyVars, gistVars, authVars, pageVars>>

\* the page has the loader element, hidden
InitAssets == Init /\ loaderPresent /\ ~loaderVisible

SpecAssets == InitAssets /\ [][AssetsNext]_vars

\* some step of the pipelines: time passes, a timer that is due fires, a
\* fetch is answered or fails, Promise.all settles
AssetsProgress ==
    /\ \/ \E i \in 1..MaxAssets, res \in {"ok", "notOk", "reject"} : DownloadSettles(i, res)
       \/ \E i \in 1..MaxAssets, res \in {"ok", "reject"}, out \in Outcomes :
            BodySettles(i, res, out)
       \/ AssetTick
       \/ \E i \in 1..MaxAssets, out \in Outcomes : TryWriteStep(i, out)
       \/ BatchSettles
    /\ UNCHANGED <<editorVars, applyVars, gistVars, authVars, pageVars>>

\* the pipelines do not stop while one of them can take a step
AssetsFairness == WF_vars(AssetsProgress)

SpecAssetsFair == SpecAssets /\ AssetsFairness

\* one loadToWasm call (a mapping with one entry) while the module comes up
LoadToWasmNext ==
    /\ \/ \E k \in 1..Len(AssetPool), out \in Outcomes :
            LoadAssetsFromGist(<<AssetPool[k]>>, <<out>>)
       \/ \E res \in {"ok", "notOk", "reject"} : DownloadSettles(1, res)
       \/ \E res \in {"ok", "reject"}, out \in Outcomes : BodySettles(1, res, out)
       \/ AssetTick
       \/ \E out \in Outcomes : TryWriteStep(1, out)
       \/ BatchSettles
       \/ (ModuleDefined \/ CcallAttached \/ FSAttached \/ ModuleLoaded)
            /\ UNCHANGED <<loaderVars, assetVars>>
    /\ UNCHANGED <<editorVars, applyVars, gistVars, authVars, pageVars>>

\* time passes and the timers that are due fire
LoadToWasmFairness ==
    /\ WF_vars(AssetTick /\ UNCHANGED <<editorVars, applyVars, gistVars, authVars, pageVars>>)
    /\ WF_vars((\E out \in Outcomes : TryWriteStep(1, out))
                   /\ UNCHANGED <<editorVars, applyVars, gistVars, authVars, pageVars>>)

SpecLoadToWasm == InitAssets /\ [][LoadToWasmNext]_vars /\ LoadToWasmFairness

----------------------------------------------------------------------------
(* Claims about the loader (SpecLoader) *)

\* C1: with the loader element present, after every showLoader/hideLoader call
\* loaderCount is >= 0 and the loader has class 'visible' iff loaderCount > 0.
C1_LoaderCountInvariant ==
    (loaderPresent /\ nShow + nHide > 0)
        => (loaderCount >= 0 /\ (loaderVisible <=> loaderCount > 0))

\* a hide at count 0 was clamped, then shows and a hide followed
C1_Witness ==
    /\ loaderPresent
    /\ nClamped >= 1
    /\ nShow >= 2
    /\ nHide >= 2
    /\ loaderCount = 1
    /\ loaderVisible

\* C2 as stated: after any sequence of calls the loader is visible iff
\* (number of show calls) - (number of hide calls) > 0.
C2_VisibleIffNetCalls ==
    (loaderPresent /\ nShow + nHide > 0) => (loaderVisible <=> nShow - nHide > 0)

\* C2 amended: the loader is visible iff (number of show calls) - (number of
\* hide calls that found the counter above 0) > 0; a hide made at count 0 is
\* clamped and is not held against later shows.
C2_VisibleIffUnclampedNet ==
    (loaderPresent /\ nShow + nHide > 0)
        => (loaderVisible <=> nShow - (nHide - nClamped) > 0)

\* as many shows as hides, one hide clamped, and the loader is visible
C2_Witness ==
    /\ loaderPresent
    /\ nClamped >= 1
    /\ nShow = nHide
    /\ loaderVisible

----------------------------------------------------------------------------
(* Claims about the editor (SpecEditor) *)

TimerPending == \E t \in timers : t.id = updateTimeout

\* C3: at most one debounce timer is live; the onChange callback runs only when
\* a timer fires, no earlier than DebounceMs after the last change event, once
\* if the live text differs from the active buffer's snapshot and not at all
\* if it equals it.
C3_Debounce ==
    /\ [](Cardinality(timers) <= 1)
    /\ [][/\ cbCount' # cbCount =>
                /\ lastOp'.op = "timerFire"
                /\ sinceChange = DebounceMs
                /\ text # content[activeTab]
                /\ cbCount' = cbCount + 1
          /\ (Cardinality(timers') < Cardinality(timers) /\ updateTimeout' = NoTimer) =>
                cbCount' = cbCount + (IF text # content[activeTab] THEN 1 ELSE 0)
         ]_vars

\* a burst of two change events was delivered by one callback
C3_Witness ==
    /\ lastOp.op = "timerFire"
    /\ burstLen >= 2
    /\ cbCount = 1
    /\ text # content[activeTab]
    /\ timers = {}

\* C4 as stated: switching to the other buffer while a debounced notification
\* is pending invokes the onChange callback at once.
C4_SwitchTabFlushesPending ==
    [][(activeTab' # activeTab /\ TimerPending) => cbCount' = cbCount + 1]_vars

\* C5 as stated: in every reachable state getContent() equals getValue().
C5_ActiveBufferMirrorsWidget == content[activeTab] = text

\* C5 amended: getContent() equals getValue() in every state in which no user
\* edit or setValue has come after the last setContent on the active buffer,
\* switchTab or getAllContent; getAllContent snapshots the widget before it
\* returns, so a read through it always returns the live text.
C5_ActiveBufferMirrorsAfterSync ==
    ~editedSinceSync => content[activeTab] = text

\* an edit is still waiting for its timer when getAllContent reads the buffers
C5_Witness ==
    /\ lastOp.op = "getAllContent"
    /\ TimerPending
    /\ text = "x"
    /\ content[activeTab] = "x"


----------------------------------------------------------------------------
(* Gist loading: re-entrancy and failure *)

\* a step that is a call loadGist(id), ignored or not
IsLoadCall(id) ==
    /\ lastOp'.op \in {"loadGist", "loadGistIgnored"}
    /\ lastOp'.arg = id

InFlight(id) == {p \in loads : p.id = id}

\* C6: calling loadGist(id) twice in immediate succession, the second call
\* before the first one's fetch has completed, results in exactly one fetch of
\* gist id and exactly one onStart: the first call issues one fetch and one
\* onStart, the call that follows it at once issues none.
C6_SecondCallIgnored ==
    [][\A id \in GistIds :
        /\ (IsLoadCall(id) /\ lastOp'.op = "loadGist") =>
                /\ fetches' = Bump(fetches, id)
                /\ onStarts' = Bump(onStarts, id)
        /\ (IsLoadCall(id) /\ lastOp = Op("loadGist", id)) =>
                /\ lastOp'.op = "loadGistIgnored"
                /\ fetches' = fetches
                /\ onStarts' = onStarts
                /\ loads' = loads]_vars

\* loadGist("a") was called twice in a row while its fetch is pending
C6_Witness ==
    /\ lastOp = Op("loadGistIgnored", "a")
    /\ nLoads = 1
    /\ fetches["a"] = 1
    /\ onStarts["a"] = 1
    /\ \E p \in loads : p.id = "a" /\ p.stage = "fetch"

\* C7 (as stated): whatever loads of other identifiers start, succeed or fail in
\* between, a call loadGist(X) made while a load of X is in flight or after a
\* load of X has succeeded performs no network fetch.
C7_NoFetchWhileLoadingOrLoaded ==
    [][\A id \in GistIds :
        (IsLoadCall(id) /\ (InFlight(id) # {} \/ onSuccesses[id] > 0)) =>
            fetches' = fetches]_vars

\* C7 (amended): a call loadGist(X) performs no network fetch exactly when X is
\* the identifier of the load started last and no load has failed since then;
\* every other call, also one made while an older load of X is in flight or
\* after one has succeeded, issues a fetch.
C7_IgnoredIffStartedLast ==
    [][\A id \in GistIds :
        IsLoadCall(id) =>
            /\ lastStarted = id => (lastOp'.op = "loadGistIgnored" /\ fetches' = fetches)
            /\ lastStarted # id => (lastOp'.op = "loadGist" /\ fetches' = Bump(fetches, id))]_vars

\* loads of "b" and "a" started in this order and both succeeded; loadGist("a")
\* is then called again and ignored
C7_Witness ==
    /\ lastOp = Op("loadGistIgnored", "a")
    /\ onSuccesses["a"] = 1
    /\ onSuccesses["b"] = 1
    /\ fetches["a"] = 1
    /\ loads = {}

\* C8: a loadGist(id) that fails (fetch rejection, non-2xx status, no JSON file,
\* JSON parse failure) is atomic and retryable: the failing load leaves the set
\* of pending loads and onError is invoked once for it, onSuccess is not
\* invoked (every fetch ends in exactly one of the two callbacks), no step of
\* the load up to the failure changes the in-memory or the persisted history,
\* the in-progress identifier is reset, and a loadGist(id) that follows
\* issues a new fetch.
C8_FailedLoadAtomicRetryable ==
    /\ [](\A id \in GistIds :
            fetches[id] = Cardinality(InFlight(id)) + onSuccesses[id] + onErrors[id])
    /\ [][/\ (lastOp'.op = "loadFail" /\ lastOp'.arg \in FetchFailures) =>
                /\ \E p \in loads :
                        /\ p.stage \in {"fetch", "raw"}
                        /\ loads' = loads \ {p}
                        /\ onErrors' = Bump(onErrors, p.id)
                /\ onSuccesses' = onSuccesses
                /\ currentGistId' = NoId
          /\ (lastOp'.op \in {"loadGist", "loadGistIgnored", "loadTruncated"}
                    \/ (lastOp'.op = "loadFail" /\ lastOp'.arg \in FetchFailures)) =>
                /\ gistHistory' = gistHistory
                /\ storedHistory' = storedHistory
          /\ \A id \in GistIds :
                (lastOp.op = "loadFail" /\ IsLoadCall(id)) =>
                    /\ lastOp'.op = "loadGist"
                    /\ fetches' = Bump(fetches, id)]_vars

\* a load of "a" left a history of two entries, a load of "b" failed and
\* loadGist("b") was called again: it fetches, and the history is still the one
\* the load of "a" left
C8_Witness ==
    /\ lastOp = Op("loadGist", "b")
    /\ fetches["b"] = 2
    /\ onErrors["b"] = 1
    /\ onSuccesses["b"] = 0
    /\ onSuccesses["a"] = 1
    /\ currentGistId = "b"
    /\ gistHistory = <<Entry("b", NoOwner, "doc"), Entry("a", "u2", "load")>>
    /\ storedHistory = gistHistory

----------------------------------------------------------------------------
(* Gist loading: the derivation history *)

\* the step parsed a document and put the loaded gist's entry into its history
Applied == lastOp.op \in {"loadApply", "loadApplyDone"}

\* C9: when loadGist(id) parses a document whose embedded history already
\* contains an entry with gistId = id, that entry is replaced at its index
\* rather than appended: the resulting history is as long as the embedded one,
\* holds the entry of this load at the first index whose gistId is id, and
\* equals the embedded history at every other index.
C9_ReplacedInPlace ==
    (Applied /\ FindIndex(lastOp.hist, lastOp.arg) > 0) =>
        LET k == FindIndex(lastOp.hist, lastOp.arg)
        IN  /\ Len(gistHistory) = Len(lastOp.hist)
            /\ gistHistory[k].gistId = lastOp.arg
            /\ gistHistory[k].tag = "load"
            /\ \A j \in 1..Len(gistHistory) : j # k => gistHistory[j] = lastOp.hist[j]
            /\ storedHistory = gistHistory

\* gist "b" is loaded from a document whose history holds it at index 2
C9_Witness ==
    /\ lastOp.op = "loadApply"
    /\ lastOp.arg = "b"
    /\ lastOp.hist = <<Entry("a", "u1", "doc"), Entry("b", NoOwner, "doc")>>
    /\ gistHistory = <<Entry("a", "u1", "doc"), Entry("b", "u2", "load")>>

\* C10 (as stated): after any sequence of loadGist and saveGist operations,
\* whatever history arrays the loaded documents embed, no two entries of the
\* in-memory history have the same gistId.
C10_NoTwoEntriesShareGistId ==
    \A i, j \in 1..Len(gistHistory) :
        (i # j /\ ~IsNull(gistHistory[i]) /\ ~IsNull(gistHistory[j])) =>
            gistHistory[i].gistId # gistHistory[j].gistId

----------------------------------------------------------------------------
(* Attribution *)

\* a loadGist has called onSuccess, or a saveGist has returned the new id
Succeeded == lastOp.op \in {"loadApplyDone", "loadDone", "saveDone"}

\* C11 (as stated): after every successful loadGist(id) and every successful
\* saveGist returning id, the last element of the history is the entry for id,
\* the most recent author resolved for attribution is the owner of that last
\* element and the original author is the owner of the first element.
C11_LastEntryIsMostRecent ==
    Succeeded =>
        /\ gistHistory[Len(gistHistory)].gistId = lastOp.arg
        /\ currentGistAuthors.last = gistHistory[Len(gistHistory)].owner
        /\ currentGistAuthors.first = gistHistory[1].owner

----------------------------------------------------------------------------
(* Saving *)

\* a step that is a call saveGist(payload, filename)
IsSaveCall == lastOp'.op \in {"saveGist", "saveNoToken"}

\* C12: saveGist called without a credential does not proceed: no pruning
\* check and no POST is issued (no call is left suspended at a request), the
\* in-memory and the persisted history are unchanged and no gist identifier is
\* returned.
C12_SaveWithoutTokenDoesNothing ==
    [][(IsSaveCall /\ token = NoToken) =>
            /\ lastOp' = Op("saveNoToken", NoId)
            /\ saves' = saves
            /\ nSaves' = nSaves
            /\ savedIds' = savedIds
            /\ gistHistory' = gistHistory
            /\ storedHistory' = storedHistory]_vars

\* saveGist was called without a credential while the history holds an entry
\* pruning would have checked
C12_Witness ==
    /\ lastOp = Op("saveNoToken", NoId)
    /\ token = NoToken
    /\ Len(gistHistory) > 0
    /\ saves = {}
    /\ nSaves = 0

\* C13 (as stated): when saveGist fails because the POST is rejected or answers
\* a non-2xx status, the history, in memory and in local storage, is the same
\* as it was before saveGist was called.
C13_FailedSaveLeavesHistory ==
    [][\A s \in saves :
        (s \notin saves' /\ lastOp'.op = "saveFail" /\ lastOp'.arg \in {"reject", "notOk"}) =>
            <<gistHistory', storedHistory'>> = s.before]_vars

\* json has the same frag, vert, commands and assets as the payload pl: a
\* member is undefined in both or has the same value in both
Equivalent(json, pl) ==
    \A k \in PayloadKeys :
        /\ (k \in DOMAIN json) <=> Defined(pl, k)
        /\ k \in DOMAIN json => json[k] = pl[k]

\* the gist the last operation was about is one this session published
OfPublished == lastOp.arg \in DOMAIN remote

\* C14: round trip: a successful saveGist followed by loadGist of the returned
\* identifier hands onSuccess a document with the frag, vert, commands and
\* assets that were saved, and the history the load leaves is the history the
\* save embedded followed by one entry, the one of the new gist.
C14_RoundTrip ==
    /\ (lastOp.op \in {"loadApplyDone", "loadDone"} /\ OfPublished) =>
            Equivalent(lastOp.json, remote[lastOp.arg].payload)
    /\ (Applied /\ OfPublished) =>
            LET embedded == remote[lastOp.arg].embedded
            IN  /\ lastOp.hist = embedded
                /\ Len(gistHistory) = Len(embedded) + 1
                /\ SubSeq(gistHistory, 1, Len(embedded)) = embedded
                /\ gistHistory[Len(gistHistory)].gistId = lastOp.arg
                /\ gistHistory[Len(gistHistory)].tag = "load"

\* a payload was saved as gist "b" with the history [a] embedded; "b" was then
\* loaded and its document handed to onSuccess
C14_Witness ==
    /\ lastOp.op \in {"loadApplyDone", "loadDone"}
    /\ lastOp.arg = "b"
    /\ "b" \in DOMAIN remote
    /\ remote["b"].embedded = <<Entry("a", "u1", "load")>>
    /\ remote["b"].payload.frag = "x"
    /\ lastOp.json.commands = <<"sphere,1", "fullscreen,on">>
    /\ Len(gistHistory) = 2
    /\ gistHistory[2].gistId = "b"
    /\ gistHistory[2].tag = "load"

\* C15: when the profile fetch of checkToken answers with a non-2xx status, the
\* call ends in a logout: the token in memory is null, the user is null, the
\* persisted token is removed, and the call yields false.
C15_InvalidTokenLogsOut ==
    lastOp.op = "checkTokenInvalid" =>
        /\ token = NoToken
        /\ user = NoUser
        /\ storedToken = NoToken
        /\ lastOp.arg = "false"

\* a check found the token "tok" of the resolved user "u1" invalid
C15_Witness ==
    /\ lastOp.op = "checkTokenInvalid"
    /\ lastOp.hist = <<"tok", "u1", "tok">>
    /\ token = NoToken
    /\ storedToken = NoToken

\* C16: when the profile fetch of checkToken is rejected (a network failure),
\* the token in memory and the persisted token are after the call what they
\* were before it.
C16_RejectedFetchKeepsToken ==
    [][lastOp'.op = "checkTokenRejected" =>
            /\ token' = token
            /\ storedToken' = storedToken]_vars

\* C17: readiness gate: whenever sendCommand, query, setFrag, setVert or a
\* default-scene getter has called an entry point of the execution module, the
\* module is ready: its handle is present and the load-completion flag is set.
C17_ReadinessGate == ccalls # {} => isModuleReady

\* C18: a sendCommand call made while the module is not ready leaves the
\* command-history log as it was, for every text, so getRetainedState returns
\* afterwards what it returned before.
C18_NotReadyCommandIsNoOp ==
    [][(lastOp'.op = "sendCommand" /\ ~isModuleReady) =>
            /\ cmdsHistory' = cmdsHistory
            /\ \A answers \in AnswerMaps :
                    RetainedState(cmdsHistory', answers) = RetainedState(cmdsHistory, answers)]_vars

\* the command-history log after sendCommand(cmd) when cmd is recorded, and
\* when it is not
Recorded(cmd) == cmdsHistory' = Append(cmdsHistory, cmd)

NotRecorded == cmdsHistory' = cmdsHistory

\* C19, as stated: sendCommand(text) appends text to the command-history log
\* if and only if the text before its first comma is one of the listed names.
C19_RecordedIffFirstTokenListed ==
    [][lastOp'.op = "sendCommand" =>
            IF FirstToken(lastOp'.json) \in Range(cmds_listen)
            THEN Recorded(lastOp'.json)
            ELSE NotRecorded]_vars

\* C19, amended: sendCommand(text) appends text verbatim to the command-history
\* log if and only if text begins with one of the listed names, whatever
\* follows the name and whether or not the module is ready.
C19_RecordedIffStartsWithListed ==
    [][lastOp'.op = "sendCommand" =>
            IF \E c \in Range(cmds_listen) :
                    /\ Len(c) <= Len(lastOp'.json)
                    /\ \A i \in 1..Len(c) : lastOp'.json[i] = c[i]
            THEN Recorded(lastOp'.json)
            ELSE NotRecorded]_vars

\* 'spheres,1' was sent while no module was there and is the last entry of the
\* log
C19_Witness ==
    /\ lastOp.op = "sendCommand"
    /\ lastOp.arg = "notReady"
    /\ lastOp.json = <<"s", "p", "h", "e", "r", "e", "s", ",", "1">>
    /\ cmdsHistory # <<>>
    /\ cmdsHistory[Len(cmdsHistory)] = lastOp.json

\* the positions of r that hold the pair of the k-th name of cmds_to_check
PairAt(r, k) == {i \in 1..Len(r) : StartsWith(r[i], cmds_to_check[k] \o <<",">>)}

\* the first position of x in s
FirstIndex(s, x) == CHOOSE i \in 1..Len(s) : s[i] = x /\ \A j \in 1..(i - 1) : s[j] # x

\* what C20 says of the array r returned for the log h and the answers
Retained(r, h, answers) ==
    LET names == 1..Len(cmds_to_check)
        at == [k \in names |-> PairAt(r, k)]
        pairs == UNION {at[k] : k \in names}
        cmds == (1..Len(r)) \ pairs
    IN  \* no entry twice
        /\ \A i, j \in 1..Len(r) : r[i] = r[j] => i = j
        \* the entries are the recorded commands and the derived pairs
        /\ {r[i] : i \in cmds} = Range(h)
        \* the commands come before the pairs
        /\ \A i \in cmds, j \in pairs : i < j
        \* in the order of their first occurrence
        /\ \A i, j \in cmds : i < j => FirstIndex(h, r[i]) < FirstIndex(h, r[j])
        /\ \A k, l \in names : \A i \in at[k], j \in at[l] : k < l => i < j
        \* a pair only for a name whose query answered a non-empty text
        /\ \A k \in names : \A i \in at[k] :
                /\ Truthy(QueryResult(answers[k]))
                /\ r[i] = cmds_to_check[k] \o <<",">> \o QueryResult(answers[k])

\* C20: getRetainedState returns an array without duplicates in which every
\* recorded command precedes every derived 'name,value' pair, in the order of
\* first occurrence, with a pair only for the names whose query answered a
\* non-empty text, and it leaves the command-history log unchanged.
C20_RetainedState ==
    /\ [](lastOp.op = "getRetainedState" =>
                Retained(lastOp.json, cmdsHistory, lastOp.hist))
    /\ [][lastOp'.op = "getRetainedState" => cmdsHistory' = cmdsHistory]_vars

\* 'sphere,1' was recorded twice, the module answered the query of camera with
\* 'on' and the others with '': the array holds the command once, then the pair
C20_Witness ==
    /\ lastOp.op = "getRetainedState"
    /\ cmdsHistory = << <<"s", "p", "h", "e", "r", "e", ",", "1">>,
                        <<"s", "p", "h", "e", "r", "e", ",", "1">> >>
    /\ lastOp.json = << <<"s", "p", "h", "e", "r", "e", ",", "1">>,
                        <<"c", "a", "m", "e", "r", "a", ",", "o", "n">> >>

----------------------------------------------------------------------------
(* Claims about loadToWasm (SpecLoadToWasm) *)

\* what holds of one asset's retry loop at every moment
BoundedRetry(a) ==
    /\ a.stage # "rejected"
    /\ a.attempts <= MaxAttempts + 1
    /\ a.stage = "poll" =>
           /\ a.attempts \in 1..MaxAttempts
           /\ a.waited = PollMs * a.attempts - a.left
           /\ a.events = <<>>
    /\ Has(a, "update") => a.attempts <= MaxAttempts
    /\ Has(a, "timeout") =>
           /\ a.stage = "resolved"
           /\ a.events = <<"timeout">>
           /\ a.ext = <<>>
           /\ a.attempts = MaxAttempts + 1
           /\ a.waited = MaxAttempts * PollMs

\* C21: loadToWasm always terminates: its promise is never rejected; while the
\* filesystem is not ready it runs tryWrite again every 500 ms, at most 20
\* times; the run after the 20th resolves the promise with nothing written
\* and nothing registered; a promise that waits is resolved in the end.
C21_BoundedRetryTerminates ==
    /\ [](\A i \in 1..Len(assets) : BoundedRetry(assets[i]))
    /\ (Len(assets) = 1 /\ assets[1].stage = "poll")
           ~> (Len(assets) = 1 /\ assets[1].stage = "resolved")

C21_Witness ==
    /\ Len(assets) = 1
    /\ assets[1].events = <<"timeout">>
    /\ assets[1].stage = "resolved"
    /\ batch = "resolved"

----------------------------------------------------------------------------
(* Claims about loadAssetsFromGist (SpecAssets) *)

\* the asset's own pipeline failed: its data URL does not decode, its
\* download fails, the filesystem never came, a write or the registration threw
FailedItself(a) ==
    \E tag \in {"decodeError", "downloadError", "timeout", "writeError", "registerError"} :
        Has(a, tag)

\* what holds of a batch at every moment
BatchSafe ==
    /\ batch # "rejected"
    /\ batch # "idle" =>
           /\ Len(assets) = Len(externalAssets)
           /\ \A i \in 1..Len(assets) :
                  /\ assets[i].name = externalAssets[i].name
                  /\ assets[i].stage \in {"download", "body", "poll", "resolved"}
    /\ batch = "resolved" =>
           \A i \in 1..Len(assets) : assets[i].stage = "resolved"
    /\ \A i \in 1..Len(assets) :
           (assets[i].stage = "resolved" /\ ~FailedItself(assets[i]))
               => (Has(assets[i], "write") /\ Has(assets[i], "register"))

\* C22: loadAssetsFromGist never fails as a whole: for every mapping of names
\* to data URLs or remote URLs the returned promise is never rejected, every
\* entry gets its own pipeline whatever happened to the entries before it,
\* each asset that did not fail itself is written and registered, and the
\* promise resolves once every pipeline has ended, which they all do.
C22_BatchNeverFails ==
    /\ []BatchSafe
    /\ (batch = "pending") ~> (batch = "resolved")

C22_Witness ==
    /\ batch = "resolved"
    /\ \E i, j \in 1..Len(assets) :
           /\ i < j
           /\ FailedItself(assets[i])
           /\ Has(assets[j], "write")
           /\ Has(assets[j], "register")

\* the positions of a call among the calls of an asset's attempts
At(a, tag) == {k \in 1..Len(a.events) : a.events[k] = tag}

Before2(a, first, second) ==
    \A k \in At(a, second) : \E j \in At(a, first) : j < k

\* C29: an asset is written to the filesystem before it is registered, and
\* registered with the lower-cased extension of its name; 'cubemap,on' is sent
\* exactly for the extension hdr and only after the registration; when the
\* write throws there is neither registration nor cubemap command and the
\* promise is resolved all the same.
C29_WriteThenRegisterThenCubemap ==
    \A i \in 1..Len(assets) :
        LET a == assets[i]
        IN  /\ Before2(a, "write", "register")
            /\ Before2(a, "register", "cubemap")
            /\ Has(a, "register") =>
                   /\ Ext(a.name) \in {<<"h", "d", "r">>, <<"H", "D", "R">>}
                          => a.ext = <<"h", "d", "r">>
                   /\ Ext(a.name) = <<"p", "n", "g">> => a.ext = <<"p", "n", "g">>
                   /\ Has(a, "cubemap") <=> a.ext = <<"h", "d", "r">>
            /\ ~Has(a, "register") => ~Has(a, "cubemap")
            /\ Has(a, "writeError") =>
                   /\ ~Has(a, "write")
                   /\ ~Has(a, "register")
                   /\ ~Has(a, "cubemap")
                   /\ a.stage = "resolved"

C29_Witness ==
    \E i, j \in 1..Len(assets) :
        /\ Ext(assets[i].name) = <<"H", "D", "R">>
        /\ assets[i].events = <<"update", "write", "log", "register", "cubemap">>
        /\ Has(assets[j], "writeError")

----------------------------------------------------------------------------
(* Claims about the editor's buffers (SpecEditor) *)

\* C24: switchTab(kind) with kind the active buffer does nothing: no buffer
\* slot is overwritten with the widget text, the widget text is not reloaded,
\* the active buffer, the syntax mode and a pending debounce timer stay as
\* they are, and no callback runs.
C24_SwitchToActiveTabIsNoOp ==
    [][lastOp'.op = "switchTabSame" =>
           /\ lastOp'.arg = activeTab
           /\ UNCHANGED <<content, text, activeTab, editorMode>>
           /\ UNCHANGED <<timers, updateTimeout, nextTimerId>>
           /\ UNCHANGED <<cbCount, sent>>]_vars

C24_Witness ==
    /\ lastOp.op = "switchTabSame"
    /\ updateTimeout # NoTimer
    /\ text # content[activeTab]

\* C25: setContent(kind, X) on a buffer that is not the active one leaves the
\* widget's text and the active buffer as they are, and getContent(kind) then
\* returns X; on the active buffer it also writes X to the widget.
C25_SetContentWritesThroughOnlyIfActive ==
    /\ [](lastOp.op \in {"setContentOther", "setContentActive"}
              => GetContent(lastOp.arg) = lastOp.json[1])
    /\ [](lastOp.op = "setContentActive" => (lastOp.arg = activeTab /\ text = lastOp.json[1]))
    /\ [][lastOp'.op = "setContentOther" =>
              /\ lastOp'.arg # activeTab
              /\ UNCHANGED <<text, activeTab, editorMode>>
              /\ \A t \in Tabs \ {lastOp'.arg} : content'[t] = content[t]]_vars
    /\ [][lastOp'.op = "setContentActive" => UNCHANGED activeTab]_vars

C25_Witness ==
    /\ lastOp.op = "setContentOther"
    /\ content[lastOp.arg] = "x"
    /\ text # "x"
    /\ content[activeTab] # text

----------------------------------------------------------------------------
(* Claims about error highlighting (SpecErrors) *)

\* the line number a reader finds in the event text e
Reported(e) == (CHOOSE c \in ErrorCases : c.text = e).line

\* C26: an error event with a text of the form 0:<line>:<text> decorates
\* exactly the zero-based line <line> - 1 if the document has that line; if
\* the line is beyond the document, or the text is not of that form, the set
\* of decorated lines stays as it is.
C26_ErrorLineMapping ==
    [][lastOp'.op = "stderr" =>
           LET n == Reported(lastOp'.json)
           IN  IF n # NoLine /\ n - 1 \in 0..(LineCount(text) - 1)
               THEN errorLines' = errorLines \cup {n - 1}
               ELSE errorLines' = errorLines]_vars

C26_Witness ==
    /\ lastOp.op = "stderr"
    /\ Reported(lastOp.json) = 12
    /\ errorLines = {0, 11}
    /\ text = "dV"

ZeroLineError == <<"0", ":", "0", ":", "x">>

\* C27 as stated: after an error event with the text 0:0:x line 0 is decorated
C27_LineZeroDecoratesLineZero ==
    (lastOp.op = "stderr" /\ lastOp.json = ZeroLineError) => 0 \in errorLines

\* C27: an error event with the text 0:0:x (reported line 0) decorates no
\* line: the set of decorated lines stays as it is.
C27_LineZeroDecoratesNothing ==
    [][(lastOp'.op = "stderr" /\ lastOp'.json = ZeroLineError)
           => errorLines' = errorLines]_vars

C27_Witness ==
    /\ lastOp.op = "stderr"
    /\ lastOp.json = ZeroLineError
    /\ errorLines = {}

----------------------------------------------------------------------------
(* Claims about pruneGistHistory (SpecGistSave) *)

\* a is b with some elements left out
IsSubsequence(a, b) ==
    \E f \in [1..Len(a) -> 1..Len(b)] :
        /\ \A i \in 1..Len(a) : a[i] = b[f[i]]
        /\ \A i, j \in 1..Len(a) : i < j => f[i] < f[j]

\* the entries a pruning loop has kept, after its check of entry answered
Kept(s, outcome) ==
    IF outcome \in {"ok", "reject"} THEN Append(s.valid, s.src[s.idx]) ELSE s.valid

\* C28: pruneGistHistory keeps an entry iff its existence check answers 2xx or
\* the fetch itself is rejected and drops it on any other answer; the kept
\* entries are a subsequence of the array it went through; at the end the
\* pruned history replaces the history in memory and is persisted.
C28_PruneKeepsCheckedEntriesInOrder ==
    /\ [](\A s \in saves : s.stage = "prune" =>
              IsSubsequence(s.valid, SubSeq(s.src, 1, s.idx - 1)))
    /\ [][lastOp'.op \in {"pruneCheck", "pruneDone"} =>
              \E s \in saves :
                  /\ s.stage = "prune"
                  /\ IF lastOp'.op = "pruneCheck"
                     THEN \E t \in saves' :
                              /\ t.n = s.n
                              /\ t.stage = "prune"
                              /\ t.idx = s.idx + 1
                              /\ t.valid = Kept(s, lastOp'.arg)
                     ELSE /\ s.idx = Len(s.src)
                          /\ gistHistory' = Kept(s, lastOp'.arg)
                          /\ storedHistory' = gistHistory'
                          /\ IsSubsequence(gistHistory', s.src)]_vars

C28_Witness ==
    /\ lastOp.op = "pruneDone"
    /\ lastOp.arg = "reject"
    /\ Len(gistHistory) = 1
    /\ storedHistory = gistHistory
    /\ \E s \in saves : s.stage = "post" /\ Len(s.before[1]) = 2

----------------------------------------------------------------------------
(* Claims about the editor-to-module synchronisation (SpecSync) *)

\* the text of the editor's buffer of a tab: the widget for the active one
Buffer(tab) == IF tab = activeTab THEN text ELSE content[tab]

\* C30: once the edits have stopped and every pending timer has fired, the
\* source last sent to the module for each buffer is the text of that buffer
\* (a buffer that was never sent still holds the source the page started with).
C30_EditsAreDelivered ==
    timers = {} =>
        \A tab \in Tabs :
            \/ sent[tab] = Buffer(tab)
            \/ /\ sent[tab] = NoText
               /\ Buffer(tab) = (IF tab = "frag" THEN "dF" ELSE "dV")

----------------------------------------------------------------------------
(* Claims about the onSuccess callback (SpecApply) *)

\* the place of a call in the order of the callback
Rank(e) ==
    CASE e.ev = "setContent" -> 1
      [] e.ev = "updateShader" -> 2
      [] e.ev = "loadAssetsFromGist" -> 3
      [] e.ev \in {"setFullscreen", "sendCommand"} -> 4
      [] e.ev = "setFrag" -> 5
      [] e.ev = "setVert" -> 6
      [] e.ev = "hideLoader" -> 7

Count(kind) == Cardinality({k \in 1..Len(applied) : applied[k].ev = kind})

\* the calls of the callback that are commands, in the order they were made
CommandCalls == SelectSeq(applied, LAMBDA e : Rank(e) = 4)

\* C23: the callback works in a fixed order: the document's sources go into
\* the editor buffers, the active buffer is sent to the bridge, the assets are
\* loaded; only when every asset promise is settled are the commands issued,
\* in document order, those that start with 'fullscreen,' to the UI and the
\* others to the bridge; then both sources are sent again, and then the
\* loader is hidden.
C23_OnSuccessOrder ==
    /\ [](\A j, k \in 1..Len(applied) : j < k => Rank(applied[j]) <= Rank(applied[k]))
    /\ [](applying.pos = "await" =>
              /\ Count("updateShader") = 1
              /\ Count("loadAssetsFromGist") = (IF applying.json.hasAssets THEN 1 ELSE 0)
              /\ CommandCalls = <<>>
              /\ Count("setFrag") + Count("setVert") + Count("hideLoader") = 0
              /\ applying.json.frag # "" => content["frag"] = applying.json.frag
              /\ applying.json.vert # "" => content["vert"] = applying.json.vert
              /\ sent[activeTab] = text
              /\ loaderVisible)
    /\ [](applying.pos = "done" =>
              /\ Len(CommandCalls) = Len(applying.json.commands)
              /\ \A k \in 1..Len(CommandCalls) :
                     /\ CommandCalls[k].cmd = applying.json.commands[k]
                     /\ CommandCalls[k].ev = "setFullscreen"
                            <=> StartsWith(CommandCalls[k].cmd, FullscreenPrefix)
              /\ Count("setFrag") = 1
              /\ Count("setVert") = 1
              /\ Count("hideLoader") = 1
              /\ sent = content
              /\ ~loaderVisible)
    /\ [][applying'.pos = "done" /\ applying.pos # "done" =>
              /\ \A i \in 1..Len(assets) : assets[i].stage = "resolved"
              /\ Len(assets) = Len(applying.json.assets)
              /\ applying.json.hasAssets => batch = "resolved"
              /\ UNCHANGED <<assets, batch>>]_vars

C23_Witness ==
    /\ applying.pos = "done"
    /\ Len(assets) = 2
    /\ \E i \in 1..2 : Has(assets[i], "register")
    /\ Len(CommandCalls) = 2
    /\ CommandCalls[1].ev = "sendCommand"
    /\ CommandCalls[2].ev = "setFullscreen"
    /\ fullscreen
    /\ Count("setContent") = 2

----------------------------------------------------------------------------
(* Claims about dropped files (SpecDrop) *)

\* nothing of the drops is pending: every file has been read and handled,
\* every finally callback has run, no debounce timer is left
DropsQuiet ==
    /\ timers = {}
    /\ \A d \in 1..Len(drops) :
        /\ drops[d].finished
        /\ \A i \in 1..Len(drops[d].files) :
               drops[d].files[i].stage \in {"resolved", "rejected"}

\* C31: once a dropped shader file has been read and nothing is pending any
\* more, the module holds the text of the buffer the file went to: the file's
\* text was sent through setFrag (frag, fs) or setVert (vert, vs).
C31_DroppedShaderIsSent ==
    DropsQuiet =>
        \A d \in 1..Len(drops) : \A i \in 1..Len(drops[d].files) :
            LET f == drops[d].files[i]
                ext == ToLowerCase(Ext(f.name))
            IN  (ext \in ShaderExts /\ f.stage = "resolved") =>
                    sent[ShaderType(ext)] = Buffer(ShaderType(ext))

----------------------------------------------------------------------------
(* Claims about the session and its buttons (SpecSession) *)

\* C32: in every reachable state, whatever the order in which logins, logouts
\* and the pending token validations complete, a resolved user implies a
\* token in memory.
C32_UserImpliesToken == user # NoUser => token # NoToken

\* C34: every success line on the console names a gist that saveGist has
\* created, and the page URL is only ever rewritten to the id of such a gist.
C34_SavedOnlyWhenCreated ==
    /\ \A k \in 1..Len(consoleOut) :
           ~consoleOut[k].isError => consoleOut[k].text[2] \in savedIds
    /\ pageUrl # NoId => pageUrl \in savedIds

\* C36: once no token validation is pending, the login button shows the
\* session: 'Log out (<user>)' with the save button visible when a user is
\* resolved, 'Login' with the save button hidden when none is.
C36_ButtonsShowSession ==
    (setupState = "done" /\ checks = {}) =>
        /\ loginBtnText = (IF user # NoUser THEN LogoutText(user) ELSE LoginText)
        /\ saveBtnDisplay = (IF user # NoUser THEN "block" ELSE "none")

----------------------------------------------------------------------------
(* Claims about loads during a save (SpecGistSave) *)

\* the saveGist call s ends its pruning in this step
PruneEnds(s) ==
    /\ s.stage = "prune"
    /\ lastOp'.op = "pruneDone"
    /\ \E s2 \in saves' : s2.n = s.n /\ s2.stage = "post"

\* the entry e is in the history h
InHistory(e, h) == \E j \in 1..Len(h) : h[j] = e

\* the pruning of s has checked no entry of the gist of e: the array it
\* iterates does not list that gist
NotChecked(e, s) == \A j \in 1..Len(s.src) : IsNull(s.src[j]) \/ s.src[j].gistId # e.gistId

\* C33: when a pruning ends, an entry that a loadGist has recorded while the
\* pruning was suspended (an entry of a load that the pruned array does not
\* list) is still in the history in memory and in the persisted history.
C33_LoadSurvivesPrune ==
    [][\A s \in saves :
           PruneEnds(s) =>
               \A k \in 1..Len(gistHistory) :
                   LET e == gistHistory[k]
                   IN  (~IsNull(e) /\ e.tag = "load" /\ NotChecked(e, s)) =>
                           /\ InHistory(e, gistHistory')
                           /\ storedHistory' # Absent
                           /\ InHistory(e, storedHistory')]_vars

----------------------------------------------------------------------------
(* Claims about the persisted state (SpecGistSave) *)

\* C37: between the steps of the operations, the token in localStorage is
\* the token in memory and the history array in localStorage is the history
\* in memory (no array stored while the history in memory is still empty):
\* a reload would restore both.
C37_PersistedMirrorsMemory ==
    /\ storedToken = token
    /\ \/ storedHistory = gistHistory
       \/ storedHistory = Absent /\ gistHistory = <<>>

----------------------------------------------------------------------------
(* Claims about the loader of the page (SpecPage) *)

\* checkModule has found the module ready; the gist load it started, if any,
\* has ended, in onError or with the end of the onSuccess callback; every
\* drop has run its finally callback
PageAtRest ==
    /\ checkModule = "cleared"
    /\ loads = {}
    /\ applying.pos \in {"idle", "done", "threw"}
    /\ \A d \in 1..Len(drops) : drops[d].finished

\* C35: once the module is ready and every started gist load and file drop
\* has finished, successfully or with a failure (a failure while the loaded
\* document is applied included), loaderCount is 0 and the loader is hidden.
C35_LoaderBalanced == PageAtRest => (loaderCount = 0 /\ ~loaderVisible)

\* the same, for the loads whose onSuccess callback runs to its end
LoaderBalancedWhenApplied ==
    (PageAtRest /\ applying.pos # "threw") => (loaderCount = 0 /\ ~loaderVisible)

====
